---- MODULE Spec2Model ----
(***************************************************************************)
(* The voice booking hook (useVoiceBooking) of src/App.tsx and the App     *)
(* component that drives it, as a state machine.                           *)
(*                                                                         *)
(* React state (useState) and refs (useRef) are the variables.  Every      *)
(* callback of the hook is an action.  JavaScript runs a callback to       *)
(* completion: the onmessage handler is split into the steps of its loop   *)
(* (one step per function call, one for processBooking, one for the        *)
(* trailing interruption check) and while it runs no other action is       *)
(* enabled.  Strings are sequences of one-character strings.               *)
(*                                                                         *)
(* Inputs of Spec: the messages of the live session carry function calls   *)
(* and the interruption flag but no inline audio data, the speech requests *)
(* of speakText return no audio and the script processor delivers no       *)
(* frames, so playAudio is not entered and the playback cursor and the set *)
(* of sources change by stopPlayback only.  The other specifications add   *)
(* inputs: SpecAudio follows one booking session whose messages and speech *)
(* responses carry audio chunks while the clock of the playback context    *)
(* advances; SpecHook is such a session in which submitManualInput is      *)
(* called in any step; SpecMic is the life cycle with microphone frames;   *)
(* SpecTool is the life cycle with tool-call messages whose calls carry    *)
(* different ids.  The last tool response is kept in lastEvent.            *)
(*                                                                         *)
(* Each invocation of startBooking owns a media stream and a live session; *)
(* the environment (the browser and the session service) resolves or       *)
(* rejects the stream request, opens the session, delivers messages,       *)
(* reports an error and closes the session.                                *)
(*                                                                         *)
(* The Chatbot component (src/unnamed/part_000) that App mounts is the     *)
(* second part of the state: its React state and refs, the saved chat     *)
(* history, the chat requests in flight and the invocations of             *)
(* handleToggleRecording.  SpecChat is the text chat (open, close, typing, *)
(* handleSend and the end of a request), SpecChatLive adds that a request  *)
(* settles, SpecVoice is the voice input.  The booking hook and the        *)
(* Chatbot share no state: the specifications of the one leave the         *)
(* variables of the other as the page load set them.                       *)
(***************************************************************************)
EXTENDS Integers, Sequences, FiniteSets, TLC

VARIABLES
    bookingStep,            \* useState<BookingStep>
    dpwRef,                 \* useState<string>
    token,                  \* useState<string>
    containerNumber,        \* useState<string>
    containerLocation,      \* useState<string>
    gateInTime,             \* useState<string>
    error,                  \* useState<string | null>
    sessionPromiseRef,      \* useRef: 0 is null, k the session of attempt k
    audioContextRef,        \* useRef: 0 is null, k the context made by attempt k
    outputAudioContextRef,  \* useRef: FALSE is null, TRUE a playback context
    mediaStreamRef,         \* useRef: 0 is null, k the stream of attempt k
    scriptProcessorRef,     \* useRef: 0 is null, k the processor made by onopen of k
    nextStartTimeRef,       \* useRef(0): the playback cursor
    audioSourcesRef,        \* useRef(new Set): the scheduled sources
    scheduled,              \* history: the chunks scheduled since playback was last stopped
    currentTime,            \* outputAudioContextRef.current.currentTime (0 without a context)
    speaking,               \* speech requests of speakText that are in flight
    captured,               \* history: the microphone frames captured so far
    showSplash,             \* App: useState(true)
    attempts,               \* per startBooking invocation: its stream and session
    handler,                \* position inside the running onmessage handler
    sender,                 \* the session whose message the handler handles (0: none runs)
    lastEvent,              \* history: the step taken last and the step it started in
    \* the Chatbot component (src/unnamed/part_000)
    isChatOpen,             \* App: useState(false), the isOpen of the Chatbot
    messages,               \* useState<Message[]>: <<isUser, text>> of each message
    input,                  \* useState('')
    isLoading,              \* useState(false)
    isRecording,            \* useState(false)
    isConnectingVoice,      \* useState(false)
    chatRef,                \* useRef<Chat>: FALSE is null, TRUE a chat
    voiceSessionRef,        \* useRef: 0 is null, k the session of voice attempt k
    voiceAudioContextRef,   \* useRef: 0 is null, k the context made by voice attempt k
    voiceMediaStreamRef,    \* useRef: 0 is null, k the stream of voice attempt k
    voiceScriptProcessorRef,\* useRef: 0 is null, k the processor made by onopen of k
    chatOutputContextRef,   \* the outputAudioContextRef of the Chatbot: FALSE is null
    chatNextStartTimeRef,   \* the nextStartTimeRef of the Chatbot
    chatAudioSourcesRef,    \* the audioSourcesRef of the Chatbot
    hasSpokenGreeting,      \* useRef(false)
    chatStorage,            \* localStorage[CHAT_HISTORY_KEY]: the saved messages
    chatRequests,           \* sendMessage requests that have not settled
    chatSpeaking,           \* greeting timers and speech requests that are under way
    voiceAttempts,          \* per handleToggleRecording that started: its stream and session
    chatEvent               \* history: the Chatbot step taken last and what it found

bookingVars == <<bookingStep, dpwRef, token, containerNumber, containerLocation,
                 gateInTime, error>>
refVars == <<sessionPromiseRef, audioContextRef, outputAudioContextRef,
             mediaStreamRef, scriptProcessorRef>>
audioVars == <<nextStartTimeRef, audioSourcesRef, scheduled, currentTime, speaking>>
handlerVars == <<handler, sender>>
appVars == <<bookingVars, refVars, audioVars, captured, showSplash, attempts, handlerVars,
             lastEvent>>
chatTextVars == <<messages, input, isLoading, chatRef, chatStorage, chatRequests>>
chatVoiceVars == <<isRecording, isConnectingVoice, voiceSessionRef, voiceAudioContextRef,
                   voiceMediaStreamRef, voiceScriptProcessorRef, voiceAttempts>>
chatAudioVars == <<chatOutputContextRef, chatNextStartTimeRef, chatAudioSourcesRef,
                   hasSpokenGreeting, chatSpeaking>>
chatVars == <<isChatOpen, chatTextVars, chatVoiceVars, chatAudioVars, chatEvent>>
vars == <<appVars, chatVars>>

----------------------------------------------------------------------------
(* Bounds of the model.                                                    *)

\* startBooking invocations whose stream or session is still in use at one
\* time (each invocation owns one stream and one session)
MaxAttempts == 2

\* readings of the clock of the playback context
MaxTime == 3

\* speech requests in flight at one time that will return audio
MaxSpeak == 1

\* microphone frames captured in one run
MaxFrames == 2

\* messages in the history of the Chatbot
MaxMessages == 5

\* handleToggleRecording invocations of the Chatbot whose stream or session is
\* still in use at one time
MaxVoiceAttempts == 2

----------------------------------------------------------------------------
(* BookingStep                                                             *)

IDLE == "IDLE"
CONNECTING == "CONNECTING"
LISTENING_DPW == "LISTENING_DPW"
CONFIRMING_DPW == "CONFIRMING_DPW"
LISTENING_TOKEN == "LISTENING_TOKEN"
CONFIRMING_TOKEN == "CONFIRMING_TOKEN"
CONFIRMING_BOOKING == "CONFIRMING_BOOKING"
PROCESSING == "PROCESSING"
SUCCESS == "SUCCESS"
ERROR == "ERROR"

BookingStep == {IDLE, CONNECTING, LISTENING_DPW, CONFIRMING_DPW, LISTENING_TOKEN,
                CONFIRMING_TOKEN, CONFIRMING_BOOKING, PROCESSING, SUCCESS, ERROR}

DPW_REF_LENGTH == 7
TOKEN_LENGTH == 6

----------------------------------------------------------------------------
(* Strings and the two validations of the onmessage handler                *)

Digit == {"0", "1", "2", "3", "4", "5", "6", "7", "8", "9"}

\* the characters the regular expression class \s matches, as far as the
\* inputs of the model use them
WhitespaceChar == {" ", "\t", "\n"}

\* the value of an argument the model left out of fc.args
undefined == <<"undefined">>

\* fc.args.number || ''
OrEmpty(x) == IF x = undefined THEN <<>> ELSE x

\* mutant: the whitespace is left in
RemoveWhitespace_Identity(s) == s

\* .replace(/\s/g, '')
RemoveWhitespace(s) == SelectSeq(s, LAMBDA c : c \notin WhitespaceChar)

\* /^\d{n}$/.test(s)
TestDigits(s, n) == Len(s) = n /\ \A i \in 1..Len(s) : s[i] \in Digit

\* mutant: the regular expression test is dropped
IsValidDpwRef_NonEmptyOnly(number) == number # <<>>

\* number && /^\d{7}$/.test(number)
IsValidDpwRef(number) == number # <<>> /\ TestDigits(number, DPW_REF_LENGTH)

\* mutant: the token is tested with the pattern of the reference
IsValidToken_RefPattern(number) == number # <<>> /\ TestDigits(number, DPW_REF_LENGTH)

\* number && /^\d{6}$/.test(number)
IsValidToken(number) == number # <<>> /\ TestDigits(number, TOKEN_LENGTH)

\* String(n) for a natural number n
RECURSIVE NatToString(_)
NatToString(n) ==
    IF n < 10 THEN <<CHOOSE d \in Digit : d = ToString(n)>>
    ELSE NatToString(n \div 10) \o NatToString(n % 10)

\* s.padStart(2, '0')
PadStart2(s) == IF Len(s) < 2 THEN <<"0">> \o s ELSE s

letters == <<"A", "B", "C", "D", "E", "F", "G", "H", "I", "J", "K", "L", "M",
             "N", "O", "P", "Q", "R", "S", "T", "U", "V", "W", "X", "Y", "Z">>

\* Math.random() returns r / RandomScale for a natural r below RandomScale
RandomScale == 100

\* Math.floor(base + Math.random() * span)
FloorRandom(base, span, r) == base + (r * span) \div RandomScale

\* letters.charAt(Math.floor(Math.random() * letters.length))
randomChar(r) == <<letters[FloorRandom(0, Len(letters), r) + 1]>>

\* `DPWU${Math.floor(1000000 + Math.random() * 9000000)}`
mockContainerNumber(r) ==
    <<"D", "P", "W", "U">> \o NatToString(FloorRandom(1000000, 9000000, r))

\* generateMockLocation, its five Math.random() results given in call order
generateMockLocation(r1, r2, r3, r4, r5) ==
    PadStart2(NatToString(FloorRandom(0, 100, r1))) \o randomChar(r2)
        \o PadStart2(NatToString(FloorRandom(0, 100, r3))) \o randomChar(r4)
        \o NatToString(FloorRandom(0, 10, r5))

\* `${Math.floor(1 + Math.random() * 12)}:${String(...).padStart(2, '0')} PM`
mockGateInTime(r1, r2) ==
    NatToString(FloorRandom(1, 12, r1)) \o <<":">>
        \o PadStart2(NatToString(FloorRandom(0, 60, r2))) \o <<" ", "P", "M">>

\* the results of the eight Math.random() calls of one processBooking run
RandomDraws == { <<0, 0, 0, 0, 0, 0, 0, 0>>,
                 <<99, 99, 99, 99, 99, 99, 99, 99>> }

----------------------------------------------------------------------------
(* Inputs                                                                  *)

\* values of the number argument of a submit call
NumberArgs == { undefined,
                <<"7", "6", "5", " ", "4", "3", "2", "1">>,
                <<" ", "6", "5", "4", "\t", "3", "2", "1">>,
                <<"1", "2", "a", "4", "5", "6", "7">> }

NoNumber == <<>>

submitDpwReferenceNumber == "submitDpwReferenceNumber"
confirmDpwReference == "confirmDpwReference"
submitTokenNumber == "submitTokenNumber"
confirmToken == "confirmToken"
confirmBooking == "confirmBooking"

\* fc.id: the id the service gave the call
CallIds == {"call-1", "call-2"}

\* the function calls a tool-call message may list: id, name and args, where
\* flag is args.isCorrect, respectively args.proceed
FunctionCalls ==
    [id : {"call-1"}, name : {submitDpwReferenceNumber, submitTokenNumber},
     number : NumberArgs, flag : {FALSE}]
    \cup [id : {"call-1"}, name : {confirmDpwReference, confirmToken, confirmBooking},
          number : {NoNumber}, flag : BOOLEAN]

NoCall == [id |-> "none", name |-> "none", number |-> NoNumber, flag |-> FALSE]

\* what the manual input field can hold when the form is submitted
ManualTexts == { <<>>,
                 <<"7", "6", "5", "4", "3", "2", "1">>,
                 <<"6", "5", "4", "3", "2", "1">> }

\* the audio chunks a message or a speech response can carry, by their
\* duration in ticks of the clock of the playback context
Chunks == {1, 2}

\* no inline audio data
NoChunk == 0

\* the sources playAudio can start: when they start and when they end
Sources == [start : 0..MaxTime, end : 0..MaxTime]

null == "null"
ConnectionErrorMessage == "A connection error occurred. Please try again."
MicrophoneErrorMessage ==
    "Could not access the microphone. Please grant permission and try again."

----------------------------------------------------------------------------
(* State                                                                   *)

Attempt == 1..MaxAttempts

\* media: the getUserMedia request of the invocation and its stream;
\* session: the live session the invocation connected;
\* closeRequested: cleanup asked for session.close() of a session that is
\* connecting or open (it runs once the session promise resolves, that is
\* after the session opened);
\* waiting: the frames whose then-callback waits for the session promise;
\* received: the frames sendRealtimeInput gave to the session
NoAttempt == [media |-> "none", session |-> "none", closeRequested |-> FALSE,
              waiting |-> <<>>, received |-> <<>>]

\* handler: "idle" when no onmessage handler runs; "calls" at the head of the
\* loop over message.toolCall.functionCalls (the calls the message lists are
\* drawn one by one as the loop reaches them); "processBooking" between
\* setBookingStep(PROCESSING) and the call of processBooking; "called" at the
\* end of the loop body
HandlerIdle == "idle"

\* App: the condition of the effect that calls startBooking.  The effect
\* runs when the render that made the condition true is committed, before
\* the next event is handled.
autoStartDue == ~showSplash /\ bookingStep = IDLE

\* no callback is running and no effect is due: the next event can be handled
Ready == handler = HandlerIdle /\ ~autoStartDue

\* the captured fields, as a step that may change them found them
NoFields == [dpwRef |-> <<>>, token |-> <<>>, record |-> <<<<>>, <<>>, <<>>>>,
             error |-> null]

Fields == [dpwRef |-> dpwRef, token |-> token,
           record |-> <<containerNumber, containerLocation, gateInTime>>,
           error |-> error]

\* which refs hold a handle
NoHandles == [session |-> FALSE, stream |-> FALSE, processor |-> FALSE,
              input |-> FALSE, output |-> FALSE]

Handles == [session |-> sessionPromiseRef # 0, stream |-> mediaStreamRef # 0,
            processor |-> scriptProcessorRef # 0, input |-> audioContextRef # 0,
            output |-> outputAudioContextRef]

\* the playback cursor, the scheduled sources and the clock of the playback
\* context
NoPlayback == [cursor |-> 0, sources |-> {}, clock |-> 0]

Playback == [cursor |-> nextStartTimeRef, sources |-> audioSourcesRef,
             clock |-> currentTime]

\* no tool response
NoResponse == [to |-> 0, id |-> "none", name |-> "none", result |-> "none"]

\* sessionPromiseRef.current?.then((session) => session.sendToolResponse(...)):
\* the response to the function call fc and the session promise it is
\* given to; nothing with null in the ref
sendToolResponse(fc) ==
    IF sessionPromiseRef = 0 THEN NoResponse
    ELSE [to |-> sessionPromiseRef, id |-> fc.id, name |-> fc.name, result |-> "OK"]

\* the value of lastEvent after a step: what ran, the function call or the
\* manual input it was given, the booking step it started in, the playback
\* state it started with and, for a function call, a manual input, a call
\* of submitManualInput and a
\* reset, the captured fields it started with and, for a reset and a
\* microphone frame, the handles it started with
Event(op, fc) ==
    [op |-> op, fc |-> fc, from |-> bookingStep,
     pre |-> IF op \in {"functionCall", "manualSubmit", "submitManualInput", "reset"}
             THEN Fields ELSE NoFields,
     held |-> IF op \in {"reset", "audioprocess"} THEN Handles ELSE NoHandles,
     playback |-> Playback, chunk |-> NoChunk,
     sent |-> IF op = "functionCall" THEN sendToolResponse(fc) ELSE NoResponse,
     stale |-> FALSE]

\* the same for a callback of the session of attempt k; when cleanup had
\* asked that session to close, the event is marked stale and keeps the
\* captured fields and the handles the callback found
SessionEvent(op, k) ==
    IF attempts[k].closeRequested
    THEN [Event(op, NoCall) EXCEPT !.stale = TRUE, !.pre = Fields, !.held = Handles]
    ELSE Event(op, NoCall)

\* the same for a step that was given an audio chunk (or none)
AudioEvent(op, chunk) == [Event(op, NoCall) EXCEPT !.chunk = chunk]

InitApp ==
    /\ bookingStep = IDLE
    /\ dpwRef = <<>>
    /\ token = <<>>
    /\ containerNumber = <<>>
    /\ containerLocation = <<>>
    /\ gateInTime = <<>>
    /\ error = null
    /\ sessionPromiseRef = 0
    /\ audioContextRef = 0
    /\ outputAudioContextRef = FALSE
    /\ mediaStreamRef = 0
    /\ scriptProcessorRef = 0
    /\ nextStartTimeRef = 0
    /\ audioSourcesRef = {}
    /\ scheduled = <<>>
    /\ currentTime = 0
    /\ speaking = 0
    /\ captured = 0
    /\ showSplash = TRUE
    /\ attempts = [k \in Attempt |-> NoAttempt]
    /\ handler = HandlerIdle
    /\ sender = 0
    /\ lastEvent = [op |-> "init", fc |-> NoCall, from |-> IDLE, pre |-> NoFields,
                    held |-> NoHandles, playback |-> NoPlayback, chunk |-> NoChunk,
                    sent |-> NoResponse, stale |-> FALSE]

\* the Chatbot as App mounts it: closed, nothing typed, sent or recorded
NoVoiceAttempt == [media |-> "none", session |-> "none", closeRequested |-> FALSE]

VoiceAttempt == 1..MaxVoiceAttempts

\* which voice refs hold a handle, the two flags of the voice input and what
\* the playback holds
NoVoiceHandles == [session |-> FALSE, stream |-> FALSE, processor |-> FALSE,
                   input |-> FALSE, recording |-> FALSE, connecting |-> FALSE,
                   sources |-> FALSE, output |-> FALSE]

VoiceHandles == [session |-> voiceSessionRef # 0, stream |-> voiceMediaStreamRef # 0,
                 processor |-> voiceScriptProcessorRef # 0,
                 input |-> voiceAudioContextRef # 0, recording |-> isRecording,
                 connecting |-> isConnectingVoice,
                 sources |-> chatAudioSourcesRef # {}, output |-> chatOutputContextRef]

NoChatEvent == [op |-> "init", text |-> <<>>, messages |-> <<>>, input |-> <<>>,
                isLoading |-> FALSE, chatRef |-> FALSE, requests |-> <<>>,
                held |-> NoVoiceHandles]

InitChatbot ==
    /\ isChatOpen = FALSE
    /\ messages = <<>>
    /\ input = <<>>
    /\ isLoading = FALSE
    /\ isRecording = FALSE
    /\ isConnectingVoice = FALSE
    /\ chatRef = FALSE
    /\ voiceSessionRef = 0
    /\ voiceAudioContextRef = 0
    /\ voiceMediaStreamRef = 0
    /\ voiceScriptProcessorRef = 0
    /\ chatOutputContextRef = FALSE
    /\ chatNextStartTimeRef = 0
    /\ chatAudioSourcesRef = {}
    /\ hasSpokenGreeting = FALSE
    /\ chatRequests = <<>>
    /\ chatSpeaking = 0
    /\ voiceAttempts = [k \in VoiceAttempt |-> NoVoiceAttempt]
    /\ chatEvent = NoChatEvent

\* the page is loaded with no saved chat history
Init ==
    /\ InitApp
    /\ InitChatbot
    /\ chatStorage = <<>>

----------------------------------------------------------------------------
(* stopPlayback and cleanup                                                *)

\* The numbers of the invocations are names of objects (the stream, the
\* session, the audio context and the processor an invocation created) and
\* mean nothing else: every step that changes the attempts or the refs
\* renumbers the invocations by what they hold, the free numbers last, and
\* the refs with them.
MediaRank == [none |-> 0, pending |-> 1, live |-> 2, stopped |-> 3, denied |-> 4]
SessionRank == [none |-> 0, connecting |-> 1, open |-> 2, errored |-> 3, closed |-> 4]

Bit(b) == IF b THEN 1 ELSE 0

AttemptKey(a, k, session, audioContext, mediaStream, scriptProcessor) ==
    (((((MediaRank[a[k].media] * 8 + SessionRank[a[k].session]) * 2
        + Bit(a[k].closeRequested)) * 2 + Bit(session = k)) * 2
        + Bit(audioContext = k)) * 2 + Bit(mediaStream = k)) * 2 + Bit(scriptProcessor = k)

Renumbered(q, ref) == IF ref = 0 THEN 0 ELSE CHOOSE i \in Attempt : q[i] = ref

AttemptOrders == Permutations(Attempt)

\* the attempts and the four refs that name invocations, after a step
Commit(a, session, audioContext, mediaStream, scriptProcessor) ==
    \E key \in {[k \in Attempt |->
                   AttemptKey(a, k, session, audioContext, mediaStream, scriptProcessor)]} :
    \E q \in {CHOOSE f \in AttemptOrders :
                  \A i, j \in Attempt : i < j => key[f[i]] >= key[f[j]]} :
        /\ attempts' = [i \in Attempt |-> a[q[i]]]
        /\ sessionPromiseRef' = Renumbered(q, session)
        /\ audioContextRef' = Renumbered(q, audioContext)
        /\ mediaStreamRef' = Renumbered(q, mediaStream)
        /\ scriptProcessorRef' = Renumbered(q, scriptProcessor)

\* mutant: the sources stay in the set
stopPlayback_KeepsSources ==
    /\ UNCHANGED audioSourcesRef
    /\ nextStartTimeRef' = 0
    /\ scheduled' = <<>>

\* stopPlayback: stop every source, clear the set, reset the cursor
stopPlayback ==
    /\ audioSourcesRef' = {}
    /\ nextStartTimeRef' = 0
    /\ scheduled' = <<>>

\* what cleanup does to the stream and the session the refs point at:
\* the tracks of mediaStreamRef are stopped, the session of
\* sessionPromiseRef is asked to close
\* An invocation whose stream is stopped (or was denied) and whose session is
\* closed (or was never connected) can do nothing more: its objects are
\* garbage and its slot is free for a later invocation.
cleanupAttempts(a) ==
    [k \in Attempt |->
        LET media == IF k = mediaStreamRef /\ a[k].media = "live"
                     THEN "stopped" ELSE a[k].media
        IN  IF media \in {"stopped", "denied"} /\ a[k].session \in {"none", "closed"}
            THEN NoAttempt
            ELSE [media |-> media,
                  session |-> a[k].session,
                  closeRequested |-> /\ a[k].session \in {"connecting", "open"}
                                     /\ (a[k].closeRequested \/ k = sessionPromiseRef),
                  waiting |-> a[k].waiting,
                  received |-> a[k].received]]

\* mutant: the script processor is left in its ref
cleanup_KeepsProcessor(a) ==
    /\ stopPlayback
    /\ outputAudioContextRef' = FALSE
    /\ currentTime' = 0
    /\ UNCHANGED speaking
    /\ Commit(cleanupAttempts(a), 0, 0, 0, scriptProcessorRef)

\* mutant: the session promise is left in its ref
cleanup_KeepsSession(a) ==
    /\ stopPlayback
    /\ outputAudioContextRef' = FALSE
    /\ currentTime' = 0
    /\ UNCHANGED speaking
    /\ Commit(cleanupAttempts(a), sessionPromiseRef, 0, 0, 0)

\* cleanup, applied to the attempts a
cleanup(a) ==
    /\ stopPlayback
    \* outputAudioContextRef.current?.close(): the clock goes with the context
    /\ outputAudioContextRef' = FALSE
    /\ currentTime' = 0
    /\ UNCHANGED speaking
    \* scriptProcessorRef, audioContextRef, mediaStreamRef and sessionPromiseRef
    \* are set to null
    /\ Commit(cleanupAttempts(a), 0, 0, 0, 0)

Max(a, b) == IF a >= b THEN a ELSE b

\* decodeAudioData(decode(base64Audio), audioContext, 24000, 1): the audio
\* buffer of a chunk.  The chunk is consumed immediately: the buffer is there
\* before any other event is handled, and its duration is that of the chunk.
decodeAudioData(chunk) == [duration |-> chunk]

\* mutant: the cursor is not moved past the chunk
playAudio_CursorNotAdvanced(chunk) ==
    LET now == IF outputAudioContextRef THEN currentTime ELSE 0
        startTime == Max(nextStartTimeRef, now)
        audioBuffer == decodeAudioData(chunk)
    IN  [clock |-> now,
         source |-> [start |-> startTime, end |-> startTime + audioBuffer.duration],
         cursor |-> startTime]

\* mutant: the chunk starts at the clock, whatever the cursor
playAudio_StartsAtClock(chunk) ==
    LET now == IF outputAudioContextRef THEN currentTime ELSE 0
        startTime == now
        audioBuffer == decodeAudioData(chunk)
    IN  [clock |-> now,
         source |-> [start |-> startTime, end |-> startTime + audioBuffer.duration],
         cursor |-> startTime + audioBuffer.duration]

\* playAudio(base64Audio): the playback context, its clock, the source that
\* is started and the cursor, as the call leaves them
playAudio(chunk) ==
    LET now == IF outputAudioContextRef THEN currentTime ELSE 0
        startTime == Max(nextStartTimeRef, now)
        audioBuffer == decodeAudioData(chunk)
    IN  [clock |-> now,
         source |-> [start |-> startTime, end |-> startTime + audioBuffer.duration],
         cursor |-> startTime + audioBuffer.duration]

\* a call of playAudio as part of a step
PlayAudio(chunk) ==
    /\ playAudio(chunk).cursor <= MaxTime
    /\ outputAudioContextRef' = TRUE
    /\ currentTime' = playAudio(chunk).clock
    /\ audioSourcesRef' = audioSourcesRef \cup {playAudio(chunk).source}
    /\ scheduled' = Append(scheduled, playAudio(chunk).source)
    /\ nextStartTimeRef' = playAudio(chunk).cursor

\* speakText up to its await of generateContent: the request is in flight.
\* answered: the response will carry audio (a response without audio, and a
\* request that fails, change nothing when they arrive)
speakText(answered) ==
    /\ answered => speaking < MaxSpeak
    /\ speaking' = IF answered THEN speaking + 1 ELSE speaking

\* the setters startBooking and reset both call on the captured fields
clearFields ==
    /\ dpwRef' = <<>>
    /\ token' = <<>>
    /\ containerNumber' = <<>>
    /\ containerLocation' = <<>>
    /\ gateInTime' = <<>>
    /\ error' = null

----------------------------------------------------------------------------
(* App                                                                     *)

\* the splash timer fires
DismissSplash ==
    /\ handler = HandlerIdle
    /\ showSplash
    /\ showSplash' = FALSE
    /\ lastEvent' = Event("dismissSplash", NoCall)
    /\ UNCHANGED <<chatVars, captured, bookingVars, refVars, audioVars, attempts, handlerVars>>

\* startBooking up to its await of getUserMedia, called by the effect of
\* App that runs when the splash is gone and the step is IDLE.  The early
\* return on a session reference that is set is the guard: the step is IDLE
\* at the start and after reset, which both leave the reference null.  When
\* MaxAttempts invocations still hold a stream or a session the model stops
\* here.
StartBooking ==
    /\ handler = HandlerIdle
    /\ autoStartDue
    /\ sessionPromiseRef = 0
    /\ \E k \in Attempt :
        /\ attempts[k].media = "none"
        /\ \A j \in Attempt : j < k => attempts[j].media # "none"
        /\ Commit([attempts EXCEPT ![k].media = "pending"], sessionPromiseRef,
                  audioContextRef, mediaStreamRef, scriptProcessorRef)
    /\ bookingStep' = CONNECTING
    /\ clearFields
    /\ lastEvent' = Event("startBooking", NoCall)
    /\ UNCHANGED <<chatVars, captured, outputAudioContextRef, audioVars, showSplash, handlerVars>>

\* getUserMedia resolves: the rest of the try block of startBooking
GetUserMediaResolved(k) ==
    /\ Ready
    /\ attempts[k].media = "pending"
    \* mediaStreamRef, audioContextRef and sessionPromiseRef are set to the
    \* stream, the context and the session promise of this invocation
    /\ Commit([attempts EXCEPT ![k].media = "live", ![k].session = "connecting"],
              k, k, k, scriptProcessorRef)
    /\ lastEvent' = Event("getUserMediaResolved", NoCall)
    /\ UNCHANGED <<chatVars, captured, bookingVars, outputAudioContextRef, audioVars, showSplash, handlerVars>>

\* getUserMedia rejects: the catch block of startBooking
GetUserMediaRejected(k) ==
    /\ Ready
    /\ attempts[k].media = "pending"
    /\ error' = MicrophoneErrorMessage
    /\ bookingStep' = ERROR
    /\ cleanup([attempts EXCEPT ![k].media = "denied"])
    /\ lastEvent' = Event("getUserMediaRejected", NoCall)
    /\ UNCHANGED <<chatVars, captured, dpwRef, token, containerNumber, containerLocation, gateInTime,
                   showSplash, handlerVars>>

\* reset: the Start New Booking button (shown in SUCCESS and ERROR) or the
\* confirmation of the cancel dialog (opened while a booking is in progress)
Reset ==
    /\ Ready
    /\ ~showSplash
    /\ bookingStep # IDLE
    \* bound of the model: the invocation that the effect starts next finds a
    \* free slot
    /\ \E k \in Attempt : cleanupAttempts(attempts)[k].media = "none"
    /\ cleanup(attempts)
    /\ bookingStep' = IDLE
    /\ clearFields
    /\ lastEvent' = Event("reset", NoCall)
    /\ UNCHANGED <<chatVars, captured, showSplash, handlerVars>>

----------------------------------------------------------------------------
(* Session callbacks                                                       *)

\* callbacks.onopen of the session of attempt k
OnOpen(k) ==
    /\ Ready
    /\ attempts[k].session = "connecting"
    /\ bookingStep' = LISTENING_DPW
    \* audioContextRef.current! is null after a cleanup: createMediaStreamSource
    \* throws and the rest of the callback does not run; otherwise
    \* scriptProcessorRef is set to the processor of this invocation.
    \* The session promise resolves when onopen returns: the then-callbacks
    \* that waited for it run in the order they were registered.
    /\ Commit([attempts EXCEPT ![k].session = "open",
                               ![k].received = attempts[k].received \o attempts[k].waiting,
                               ![k].waiting = <<>>],
              sessionPromiseRef,
              audioContextRef, mediaStreamRef,
              IF audioContextRef # 0 THEN k ELSE scriptProcessorRef)
    /\ lastEvent' = SessionEvent("onopen", k)
    /\ UNCHANGED <<chatVars, captured, dpwRef, token, containerNumber, containerLocation, gateInTime, error,
                   outputAudioContextRef, audioVars, showSplash, handlerVars>>

\* mutant: setError is not called
OnError_NoMessage(k) ==
    /\ Ready
    /\ attempts[k].session \in {"connecting", "open"}
    /\ bookingStep' = ERROR
    /\ cleanup([attempts EXCEPT ![k].session = "errored"])
    /\ lastEvent' = SessionEvent("onerror", k)
    /\ UNCHANGED <<chatVars, captured, dpwRef, token, containerNumber, containerLocation, gateInTime, error,
                   showSplash, handlerVars>>

\* callbacks.onerror of the session of attempt k
OnError(k) ==
    /\ Ready
    /\ attempts[k].session \in {"connecting", "open"}
    /\ error' = ConnectionErrorMessage
    /\ bookingStep' = ERROR
    /\ cleanup([attempts EXCEPT ![k].session = "errored"])
    /\ lastEvent' = SessionEvent("onerror", k)
    /\ UNCHANGED <<chatVars, captured, dpwRef, token, containerNumber, containerLocation, gateInTime,
                   showSplash, handlerVars>>

\* callbacks.onclose of the session of attempt k
OnClose(k) ==
    /\ Ready
    /\ attempts[k].session \in {"open", "errored"}
    /\ cleanup([attempts EXCEPT ![k].session = "closed"])
    /\ lastEvent' = SessionEvent("onclose", k)
    /\ UNCHANGED <<chatVars, captured, bookingVars, showSplash, handlerVars>>

\* callbacks.onmessage of the session of attempt k, up to its loop; chunk is
\* message.serverContent?.modelTurn?.parts[0]?.inlineData?.data
OnMessage(k, chunk) ==
    /\ Ready
    /\ attempts[k].session = "open"
    /\ IF chunk # NoChunk THEN PlayAudio(chunk)
       ELSE UNCHANGED <<outputAudioContextRef, nextStartTimeRef, audioSourcesRef,
                        scheduled, currentTime>>
    /\ handler' = "calls"
    /\ sender' = k
    /\ lastEvent' = AudioEvent("onmessage", chunk)
    /\ UNCHANGED <<chatVars, captured, bookingVars, sessionPromiseRef, audioContextRef, mediaStreamRef,
                   scriptProcessorRef, speaking, showSplash, attempts>>

\* The branches of the loop body.  Each gives <<bookingStep, dpwRef, token>>
\* as the branch leaves them.

\* fc.name === 'submitDpwReferenceNumber'
submitDpwReferenceNumberCall(arg) ==
    LET number == RemoveWhitespace(OrEmpty(arg)) IN
    IF IsValidDpwRef(number) THEN <<CONFIRMING_DPW, number, token>>
    ELSE <<bookingStep, dpwRef, token>>

\* mutant: a confirmed reference jumps to the wrong step
confirmDpwReferenceCall_WrongStep(isCorrect) ==
    IF isCorrect THEN <<CONFIRMING_TOKEN, dpwRef, token>>
    ELSE <<LISTENING_DPW, <<>>, token>>

\* fc.name === 'confirmDpwReference'
confirmDpwReferenceCall(isCorrect) ==
    IF isCorrect THEN <<LISTENING_TOKEN, dpwRef, token>>
    ELSE <<LISTENING_DPW, <<>>, token>>

\* fc.name === 'submitTokenNumber'
submitTokenNumberCall(arg) ==
    LET number == RemoveWhitespace(OrEmpty(arg)) IN
    IF IsValidToken(number) THEN <<CONFIRMING_TOKEN, dpwRef, number>>
    ELSE <<bookingStep, dpwRef, token>>

\* mutant: a denied token restarts the whole capture
confirmTokenCall_RestartsAtRef(isCorrect) ==
    IF isCorrect THEN <<CONFIRMING_BOOKING, dpwRef, token>>
    ELSE <<LISTENING_DPW, <<>>, <<>>>>

\* fc.name === 'confirmToken'
confirmTokenCall(isCorrect) ==
    IF isCorrect THEN <<CONFIRMING_BOOKING, dpwRef, token>>
    ELSE <<LISTENING_TOKEN, dpwRef, <<>>>>

\* mutant: a declined booking keeps the token
confirmBookingCall_KeepsToken(proceed) ==
    IF proceed THEN <<PROCESSING, dpwRef, token>>
    ELSE <<LISTENING_DPW, <<>>, token>>

\* fc.name === 'confirmBooking', up to the call of processBooking
confirmBookingCall(proceed) ==
    IF proceed THEN <<PROCESSING, dpwRef, token>>
    ELSE <<LISTENING_DPW, <<>>, <<>>>>

\* the if / else if chain over fc.name
ApplyCall(fc) ==
    IF fc.name = submitDpwReferenceNumber THEN submitDpwReferenceNumberCall(fc.number)
    ELSE IF fc.name = confirmDpwReference THEN confirmDpwReferenceCall(fc.flag)
    ELSE IF fc.name = submitTokenNumber THEN submitTokenNumberCall(fc.number)
    ELSE IF fc.name = confirmToken THEN confirmTokenCall(fc.flag)
    ELSE IF fc.name = confirmBooking THEN confirmBookingCall(fc.flag)
    ELSE <<bookingStep, dpwRef, token>>

\* one iteration of the loop over message.toolCall.functionCalls
FunctionCall(fc) ==
    /\ handler = "calls"
    /\ bookingStep' = ApplyCall(fc)[1]
    /\ dpwRef' = ApplyCall(fc)[2]
    /\ token' = ApplyCall(fc)[3]
    /\ handler' = IF fc.name = confirmBooking /\ fc.flag
                   THEN "processBooking" ELSE "called"
    /\ lastEvent' = [Event("functionCall", fc) EXCEPT
                         !.stale = attempts[sender].closeRequested]
    /\ UNCHANGED <<chatVars, captured, sender, containerNumber, containerLocation, gateInTime, error, refVars,
                   audioVars, showSplash, attempts>>

\* mutant: setGateInTime is not called
ProcessBooking_NoGateInTime(r, answered) ==
    /\ handler = "processBooking"
    /\ containerNumber' = mockContainerNumber(r[1])
    /\ containerLocation' = generateMockLocation(r[2], r[3], r[4], r[5], r[6])
    /\ bookingStep' = SUCCESS
    /\ speakText(answered)
    /\ handler' = "called"
    /\ lastEvent' = Event("processBooking", NoCall)
    /\ UNCHANGED <<chatVars, captured, sender, dpwRef, token, gateInTime, error, refVars, nextStartTimeRef,
                   audioSourcesRef, scheduled, currentTime, showSplash, attempts>>

\* processBooking, called in the same iteration, with the results r of its
\* Math.random() calls; it runs up to its await of speakText
ProcessBooking(r, answered) ==
    /\ handler = "processBooking"
    /\ containerNumber' = mockContainerNumber(r[1])
    /\ containerLocation' = generateMockLocation(r[2], r[3], r[4], r[5], r[6])
    /\ gateInTime' = mockGateInTime(r[7], r[8])
    /\ bookingStep' = SUCCESS
    /\ speakText(answered)
    /\ handler' = "called"
    /\ lastEvent' = Event("processBooking", NoCall)
    /\ UNCHANGED <<chatVars, captured, sender, dpwRef, token, error, refVars, nextStartTimeRef, audioSourcesRef,
                   scheduled, currentTime, showSplash, attempts>>

\* the loop goes on to the next function call of the message, or leaves
NextCall ==
    /\ handler = "called"
    /\ handler' = "calls"
    /\ lastEvent' = Event("nextCall", NoCall)
    /\ UNCHANGED <<chatVars, captured, sender, bookingVars, refVars, audioVars, showSplash, attempts>>

\* mutant: the interruption flag is not looked at
FinishMessage_IgnoresInterruption(interrupted) ==
    /\ handler = "calls"
    /\ handler' = HandlerIdle
    /\ sender' = 0
    /\ lastEvent' = Event("finishMessage", [NoCall EXCEPT !.flag = interrupted])
    /\ UNCHANGED <<chatVars, captured, bookingVars, refVars, audioVars, showSplash, attempts>>

\* the end of the handler, after the last function call of the message:
\* if (message.serverContent?.interrupted) stopPlayback()
FinishMessage(interrupted) ==
    /\ handler = "calls"
    /\ IF interrupted THEN stopPlayback /\ UNCHANGED <<currentTime, speaking>>
       ELSE UNCHANGED audioVars
    /\ handler' = HandlerIdle
    /\ sender' = 0
    /\ lastEvent' = Event("finishMessage", [NoCall EXCEPT !.flag = interrupted])
    /\ UNCHANGED <<chatVars, captured, bookingVars, refVars, showSplash, attempts>>

----------------------------------------------------------------------------
(* Manual input                                                            *)

\* mutant: the length of the text is not compared with the required length
isInputValid_AnyLength(manualInput) ==
    TestDigits(manualInput, Len(manualInput)) /\ manualInput # <<>>

\* App: isInputValid for the text of the input field
isInputValid(manualInput) ==
    LET requiredLength == IF bookingStep = LISTENING_DPW THEN 7 ELSE 6 IN
    Len(manualInput) = requiredLength /\ TestDigits(manualInput, Len(manualInput))
        /\ manualInput # <<>>

\* mutant: outside the two listening steps the number is stored as well
submitManualInput_InEveryStep(number) ==
    IF bookingStep = LISTENING_TOKEN THEN <<CONFIRMING_TOKEN, dpwRef, number>>
    ELSE <<CONFIRMING_DPW, number, token>>

\* submitManualInput(number): <<bookingStep, dpwRef, token>> afterwards
submitManualInput(number) ==
    IF bookingStep = LISTENING_DPW THEN <<CONFIRMING_DPW, number, token>>
    ELSE IF bookingStep = LISTENING_TOKEN THEN <<CONFIRMING_TOKEN, dpwRef, number>>
    ELSE <<bookingStep, dpwRef, token>>

\* a call of submitManualInput as part of a step: stopPlayback, then the
\* branch of the step up to its await of speakText
SubmitManualInput(number, answered) ==
    /\ stopPlayback
    /\ UNCHANGED currentTime
    /\ IF bookingStep \in {LISTENING_DPW, LISTENING_TOKEN}
       THEN speakText(answered)
       ELSE ~answered /\ UNCHANGED speaking
    /\ bookingStep' = submitManualInput(number)[1]
    /\ dpwRef' = submitManualInput(number)[2]
    /\ token' = submitManualInput(number)[3]

\* App.handleManualSubmit: the form is rendered in the two listening steps
HandleManualSubmit(manualInput, answered) ==
    /\ Ready
    /\ ~showSplash
    /\ bookingStep \in {LISTENING_DPW, LISTENING_TOKEN}
    /\ isInputValid(manualInput) \/ ~answered
    /\ IF isInputValid(manualInput)
       THEN SubmitManualInput(manualInput, answered)
       ELSE UNCHANGED <<audioVars, bookingStep, dpwRef, token>>
    /\ lastEvent' = Event("manualSubmit", [NoCall EXCEPT !.number = manualInput])
    /\ UNCHANGED <<chatVars, captured, containerNumber, containerLocation, gateInTime, error, refVars,
                   showSplash, attempts, handlerVars>>

----------------------------------------------------------------------------
(* Specification                                                           *)

Next ==
    \/ DismissSplash
    \/ StartBooking
    \/ \E k \in Attempt : GetUserMediaResolved(k)
    \/ \E k \in Attempt : GetUserMediaRejected(k)
    \/ Reset
    \/ \E k \in Attempt : OnOpen(k)
    \/ \E k \in Attempt : OnError(k)
    \/ \E k \in Attempt : OnClose(k)
    \/ \E k \in Attempt : OnMessage(k, NoChunk)
    \/ \E fc \in FunctionCalls : FunctionCall(fc)
    \/ \E r \in RandomDraws : ProcessBooking(r, FALSE)
    \/ NextCall
    \/ \E interrupted \in BOOLEAN : FinishMessage(interrupted)
    \/ \E manualInput \in ManualTexts : HandleManualSubmit(manualInput, FALSE)

Spec == Init /\ [][Next]_vars

----------------------------------------------------------------------------
(* Playback                                                                *)

\* time passes on the clock of the playback context
Tick ==
    /\ Ready
    /\ outputAudioContextRef
    /\ currentTime < MaxTime
    /\ currentTime' = currentTime + 1
    /\ lastEvent' = Event("tick", NoCall)
    /\ UNCHANGED <<chatVars, captured, bookingVars, refVars, nextStartTimeRef, audioSourcesRef, scheduled,
                   speaking, showSplash, attempts, handlerVars>>

\* the 'ended' listener of a source that has played to its end
SourceEnded(source) ==
    /\ Ready
    /\ source \in audioSourcesRef
    /\ source.end <= currentTime
    /\ audioSourcesRef' = audioSourcesRef \ {source}
    /\ lastEvent' = Event("ended", NoCall)
    /\ UNCHANGED <<chatVars, captured, bookingVars, refVars, nextStartTimeRef, scheduled, currentTime,
                   speaking, showSplash, attempts, handlerVars>>

\* speakText after its await: the response of a speech request arrives with
\* audio, which is played
SpeechResponse(chunk) ==
    /\ Ready
    /\ speaking > 0
    /\ speaking' = speaking - 1
    /\ PlayAudio(chunk)
    /\ lastEvent' = AudioEvent("speechResponse", chunk)
    /\ UNCHANGED <<chatVars, captured, bookingVars, sessionPromiseRef, audioContextRef, mediaStreamRef,
                   scriptProcessorRef, showSplash, attempts, handlerVars>>

\* the function calls the messages list in the playback specification
AudioFunctionCalls ==
    { [id |-> "call-1", name |-> confirmDpwReference, number |-> NoNumber, flag |-> TRUE],
      [id |-> "call-1", name |-> confirmBooking, number |-> NoNumber, flag |-> TRUE] }

\* The hook with a session that has just opened (the state after the splash
\* timer, startBooking, the stream and onopen of the first invocation).
InitAudio ==
    /\ bookingStep = LISTENING_DPW
    /\ dpwRef = <<>>
    /\ token = <<>>
    /\ containerNumber = <<>>
    /\ containerLocation = <<>>
    /\ gateInTime = <<>>
    /\ error = null
    /\ sessionPromiseRef = 1
    /\ audioContextRef = 1
    /\ outputAudioContextRef = FALSE
    /\ mediaStreamRef = 1
    /\ scriptProcessorRef = 1
    /\ nextStartTimeRef = 0
    /\ audioSourcesRef = {}
    /\ scheduled = <<>>
    /\ currentTime = 0
    /\ speaking = 0
    /\ captured = 0
    /\ showSplash = FALSE
    /\ attempts = [k \in Attempt |->
                     IF k = 1 THEN [NoAttempt EXCEPT !.media = "live",
                                                     !.session = "open"]
                     ELSE NoAttempt]
    /\ handler = HandlerIdle
    /\ sender = 0
    /\ lastEvent = [op |-> "onopen", fc |-> NoCall, from |-> CONNECTING,
                    pre |-> NoFields, held |-> NoHandles, playback |-> NoPlayback,
                    chunk |-> NoChunk, sent |-> NoResponse, stale |-> FALSE]
    /\ InitChatbot
    /\ chatStorage = <<>>

\* One booking session with audio: the messages and the speech responses
\* carry audio chunks, time passes and sources end.  The run ends with the
\* reset of the booking.
NextAudio ==
    \/ \E k \in Attempt, chunk \in Chunks \cup {NoChunk} : OnMessage(k, chunk)
    \/ \E fc \in AudioFunctionCalls : FunctionCall(fc)
    \/ \E r \in RandomDraws, answered \in BOOLEAN : ProcessBooking(r, answered)
    \/ NextCall
    \/ \E interrupted \in BOOLEAN : FinishMessage(interrupted)
    \/ \E manualInput \in ManualTexts, answered \in BOOLEAN :
           HandleManualSubmit(manualInput, answered)
    \/ \E chunk \in Chunks : SpeechResponse(chunk)
    \/ Tick
    \/ \E source \in Sources : SourceEnded(source)
    \/ \E k \in Attempt : OnError(k)
    \/ \E k \in Attempt : OnClose(k)
    \/ Reset

SpecAudio == InitAudio /\ [][NextAudio]_vars

----------------------------------------------------------------------------
(* submitManualInput, called in any step                                   *)

\* the function of the hook, called by a client whatever the step
CallSubmitManualInput(number, answered) ==
    /\ Ready
    /\ SubmitManualInput(number, answered)
    /\ lastEvent' = Event("submitManualInput", [NoCall EXCEPT !.number = number])
    /\ UNCHANGED <<chatVars, captured, containerNumber, containerLocation, gateInTime, error, refVars,
                   showSplash, attempts, handlerVars>>

\* One booking session with audio in which submitManualInput is called in
\* any step, with any text.
NextHook ==
    \/ \E k \in Attempt, chunk \in Chunks \cup {NoChunk} : OnMessage(k, chunk)
    \/ \E fc \in AudioFunctionCalls : FunctionCall(fc)
    \/ \E r \in RandomDraws : ProcessBooking(r, FALSE)
    \/ NextCall
    \/ FinishMessage(FALSE)
    \/ \E number \in ManualTexts, answered \in BOOLEAN :
          CallSubmitManualInput(number, answered)
    \/ \E chunk \in Chunks : SpeechResponse(chunk)
    \/ \E k \in Attempt : OnError(k)
    \/ Reset

SpecHook == InitAudio /\ [][NextHook]_vars

----------------------------------------------------------------------------
(* The microphone                                                          *)

\* onaudioprocess of the processor scriptProcessorRef holds (it is connected
\* and its context is not closed): the frame is the next one captured; with
\* a session promise in the ref, the then-callback that sends the frame runs
\* at once if the promise has resolved and waits for it otherwise; with null
\* in the ref nothing is done
AudioProcess ==
    /\ Ready
    /\ scriptProcessorRef # 0
    /\ captured < MaxFrames
    /\ captured' = captured + 1
    /\ attempts' = [j \in Attempt |->
                      IF j # sessionPromiseRef THEN attempts[j]
                      ELSE IF attempts[j].session = "connecting"
                      THEN [attempts[j] EXCEPT !.waiting = Append(@, captured + 1)]
                      ELSE [attempts[j] EXCEPT !.received = Append(@, captured + 1)]]
    /\ lastEvent' = Event("audioprocess", NoCall)
    /\ UNCHANGED <<chatVars, bookingVars, refVars, audioVars, showSplash, handlerVars>>

\* The booking life cycle with the microphone: the processor
\* scriptProcessorRef holds delivers frames (a processor no ref holds any
\* more delivers none); the sessions deliver no messages.
NextMic ==
    \/ DismissSplash
    \/ StartBooking
    \/ \E k \in Attempt : GetUserMediaResolved(k)
    \/ \E k \in Attempt : GetUserMediaRejected(k)
    \/ \E k \in Attempt : OnOpen(k)
    \/ \E k \in Attempt : OnError(k)
    \/ \E k \in Attempt : OnClose(k)
    \/ Reset
    \/ AudioProcess

SpecMic == Init /\ [][NextMic]_vars

----------------------------------------------------------------------------
(* Tool responses                                                          *)

\* submissions of a reference number, well-formed and malformed, under
\* either id
ToolFunctionCalls ==
    [id : CallIds, name : {submitDpwReferenceNumber},
     number : {undefined, <<"7", "6", "5", " ", "4", "3", "2", "1">>}, flag : {FALSE}]

\* The booking life cycle with tool-call messages: the messages list
\* submissions of a reference number.
NextTool ==
    \/ DismissSplash
    \/ StartBooking
    \/ \E k \in Attempt : GetUserMediaResolved(k)
    \/ \E k \in Attempt : GetUserMediaRejected(k)
    \/ \E k \in Attempt : OnOpen(k)
    \/ \E k \in Attempt : OnError(k)
    \/ \E k \in Attempt : OnClose(k)
    \/ Reset
    \/ \E k \in Attempt : OnMessage(k, NoChunk)
    \/ \E fc \in ToolFunctionCalls : FunctionCall(fc)
    \/ NextCall
    \/ FinishMessage(FALSE)

SpecTool == Init /\ [][NextTool]_vars

----------------------------------------------------------------------------
(* The Chatbot                                                             *)

\* the texts of the messages the component writes itself, and the text of a
\* reply of the chat service
GreetingText == <<"Hello! How can I assist you with DP World services today?">>
UnavailableText == <<"Sorry, the chat service is currently unavailable.">>
ErrorText == <<"I'm sorry, I encountered an error. Please try again.">>
ReplyText == <<"response.text">>

\* what the user types and what a transcription carries
ChatTexts == {<<>>, <<" ">>, <<"h", "i">>}

\* what a message of the voice session carries as the transcription
Transcriptions == {<<>>, <<"h", "i">>}

\* a Message (the timestamp is a reading of the wall clock and is left out)
Message(isUser, text) == [isUser |-> isUser, text |-> text]

\* the saved history a page load can find
SavedHistories ==
    {<<>>, <<Message(FALSE, GreetingText), Message(TRUE, <<"h", "i">>),
             Message(FALSE, ReplyText)>>}

RECURSIVE trimStart(_)
trimStart(s) ==
    IF s # <<>> /\ Head(s) \in WhitespaceChar THEN trimStart(Tail(s)) ELSE s

RECURSIVE trimEnd(_)
trimEnd(s) ==
    IF s # <<>> /\ s[Len(s)] \in WhitespaceChar
    THEN trimEnd(SubSeq(s, 1, Len(s) - 1)) ELSE s

\* String.prototype.trim
trim(s) == trimEnd(trimStart(s))

\* the value of chatEvent after a step: what ran, the text it was given,
\* for handleSend and the end of a request the history, the input, the
\* loading flag, the chat and the requests in flight it started with and,
\* for a close and a recording that is toggled off, what it found held
ChatEvent(op, text) ==
    IF op \in {"handleSend", "reply", "error"}
    THEN [op |-> op, text |-> text, messages |-> messages, input |-> input,
          isLoading |-> isLoading, chatRef |-> chatRef, requests |-> chatRequests,
          held |-> NoVoiceHandles]
    ELSE IF op \in {"close", "toggleOff"}
    THEN [NoChatEvent EXCEPT !.op = op, !.held = VoiceHandles]
    ELSE [NoChatEvent EXCEPT !.op = op, !.text = text]

\* the effect that saves the history, run with the values of the render msgs
\* and open belong to: the saved item afterwards
setItem(open, msgs) == IF open /\ Len(msgs) > 0 THEN msgs ELSE chatStorage

\* stopPlayback of the Chatbot
chatStopPlayback ==
    /\ chatAudioSourcesRef' = {}
    /\ chatNextStartTimeRef' = 0

\* playAudio of the Chatbot.  The clock of its playback context is not
\* advanced: it reads 0, so a chunk starts at the cursor.
chatPlayAudio(chunk) ==
    LET startTime == Max(chatNextStartTimeRef, 0)
        audioBuffer == decodeAudioData(chunk)
    IN  /\ startTime + audioBuffer.duration <= MaxTime
        /\ chatOutputContextRef' = TRUE
        /\ chatAudioSourcesRef' = chatAudioSourcesRef \cup
               {[start |-> startTime, end |-> startTime + audioBuffer.duration]}
        /\ chatNextStartTimeRef' = startTime + audioBuffer.duration

\* speakText of the Chatbot up to its await of generateContent (and the
\* timer that calls it); answered: the response will carry audio
chatSpeakText(answered) ==
    /\ answered => chatSpeaking < MaxSpeak
    /\ chatSpeaking' = IF answered THEN chatSpeaking + 1 ELSE chatSpeaking

\* what cleanupVoice does to the stream and the session the refs point at;
\* an invocation whose stream is stopped (or was denied) and whose session is
\* closed (or was never connected) can do nothing more and its slot is free
cleanupVoiceAttempts(a) ==
    [k \in VoiceAttempt |->
        LET media == IF k = voiceMediaStreamRef /\ a[k].media = "live"
                     THEN "stopped" ELSE a[k].media
        IN  IF media \in {"stopped", "denied"} /\ a[k].session \in {"none", "closed"}
            THEN NoVoiceAttempt
            ELSE [media |-> media,
                  session |-> a[k].session,
                  closeRequested |-> /\ a[k].session \in {"connecting", "open"}
                                     /\ (a[k].closeRequested \/ k = voiceSessionRef)]]

VoiceRenumbered(q, ref) == IF ref = 0 THEN 0 ELSE CHOOSE i \in VoiceAttempt : q[i] = ref

VoiceAttemptOrders == Permutations(VoiceAttempt)

\* the voice attempts and the four refs that name invocations, after a step:
\* renumbered by what they hold, as the invocations of startBooking are
VoiceCommit(a, session, audioContext, mediaStream, scriptProcessor) ==
    \E key \in {[k \in VoiceAttempt |->
                   AttemptKey(a, k, session, audioContext, mediaStream, scriptProcessor)]} :
    \E q \in {CHOOSE f \in VoiceAttemptOrders :
                  \A i, j \in VoiceAttempt : i < j => key[f[i]] >= key[f[j]]} :
        /\ voiceAttempts' = [i \in VoiceAttempt |-> a[q[i]]]
        /\ voiceSessionRef' = VoiceRenumbered(q, session)
        /\ voiceAudioContextRef' = VoiceRenumbered(q, audioContext)
        /\ voiceMediaStreamRef' = VoiceRenumbered(q, mediaStream)
        /\ voiceScriptProcessorRef' = VoiceRenumbered(q, scriptProcessor)

\* mutant: the flag of the connection under way is left as it is
cleanupVoice_KeepsConnecting(a) ==
    /\ VoiceCommit(cleanupVoiceAttempts(a), 0, 0, 0, 0)
    /\ isRecording' = FALSE
    /\ UNCHANGED isConnectingVoice

\* cleanupVoice, applied to the voice attempts a
cleanupVoice(a) ==
    /\ VoiceCommit(cleanupVoiceAttempts(a), 0, 0, 0, 0)
    /\ isRecording' = FALSE
    /\ isConnectingVoice' = FALSE

\* App opens the Chatbot: the effect on isOpen in its open branch, then the
\* effect that saves the history.  ok: the chat was created (the saved item
\* parsed, the constructor and chats.create returned); a cause of failure
\* does not appear once a chat was created.
OpenChat(ok, answered) ==
    /\ ~isChatOpen
    /\ isChatOpen' = TRUE
    /\ IF hasSpokenGreeting THEN ~answered /\ UNCHANGED chatSpeaking
       ELSE chatSpeakText(answered)
    /\ hasSpokenGreeting' = TRUE
    /\ ok \/ ~chatRef
    /\ LET restoredMessages == IF chatStorage = <<>>
                               THEN <<Message(FALSE, GreetingText)>>
                               ELSE chatStorage
       IN  IF ok THEN /\ messages' = restoredMessages
                      /\ chatRef' = TRUE
           ELSE /\ messages' = <<Message(FALSE, UnavailableText)>>
                /\ UNCHANGED chatRef
    /\ chatStorage' = setItem(TRUE, messages')
    /\ chatEvent' = ChatEvent("open", <<>>)
    /\ UNCHANGED <<appVars, input, isLoading, chatRequests, chatVoiceVars,
                   chatOutputContextRef, chatNextStartTimeRef, chatAudioSourcesRef>>

\* the Chatbot is closed (its close button calls onClose): the effect on
\* isOpen in its closed branch
CloseChat ==
    /\ isChatOpen
    /\ isChatOpen' = FALSE
    /\ cleanupVoice(voiceAttempts)
    /\ chatStopPlayback
    /\ chatOutputContextRef' = FALSE
    /\ hasSpokenGreeting' = FALSE
    /\ chatEvent' = ChatEvent("close", <<>>)
    /\ UNCHANGED <<appVars, chatTextVars, chatSpeaking>>

\* onChange of the input field, which is disabled while a request, a
\* recording or a voice connection is under way
SetInput(text) ==
    /\ isChatOpen
    /\ ~(isLoading \/ isRecording \/ isConnectingVoice)
    /\ input' = text
    /\ chatEvent' = ChatEvent("setInput", text)
    /\ UNCHANGED <<appVars, isChatOpen, messages, isLoading, chatRef, chatStorage,
                   chatRequests, chatVoiceVars, chatAudioVars>>

\* mutant: an input of whitespace is sent
handleSendReturns_NotTrimmed == input = <<>> \/ isLoading \/ ~chatRef

\* if (!input.trim() || isLoading || !chatRef.current) return;
handleSendReturns == trim(input) = <<>> \/ isLoading \/ ~chatRef

\* handleSend up to its await of sendMessage, then the effect that saves the
\* history.  The form is there while the Chatbot is open; the user stops
\* when the history has no room for a message and its answer.
HandleSend ==
    /\ isChatOpen
    /\ Len(messages) + 2 <= MaxMessages
    /\ IF handleSendReturns
       THEN UNCHANGED <<chatTextVars, chatNextStartTimeRef, chatAudioSourcesRef>>
       ELSE /\ chatStopPlayback
            /\ messages' = Append(messages, Message(TRUE, input))
            /\ input' = <<>>
            /\ isLoading' = TRUE
            /\ chatRequests' = Append(chatRequests, input)
            /\ chatStorage' = setItem(isChatOpen, messages')
            /\ UNCHANGED chatRef
    /\ chatEvent' = ChatEvent("handleSend", input)
    /\ UNCHANGED <<appVars, isChatOpen, chatVoiceVars, chatOutputContextRef,
                   hasSpokenGreeting, chatSpeaking>>

\* request i settles: the rest of handleSend (the reply or the catch block,
\* then the finally block), then the effect that saves the history
SendMessageSettled(i, ok) ==
    /\ i \in 1..Len(chatRequests)
    /\ messages' = Append(messages, Message(FALSE, IF ok THEN ReplyText ELSE ErrorText))
    /\ isLoading' = FALSE
    /\ chatRequests' = SubSeq(chatRequests, 1, i - 1)
                         \o SubSeq(chatRequests, i + 1, Len(chatRequests))
    /\ chatStorage' = setItem(isChatOpen, messages')
    /\ chatEvent' = ChatEvent(IF ok THEN "reply" ELSE "error", chatRequests[i])
    /\ UNCHANGED <<appVars, isChatOpen, input, chatRef, chatVoiceVars, chatAudioVars>>

\* the audio of the greeting, the one text the Chatbot speaks
GreetingChunks == {1}

\* a speech request of the Chatbot returns audio: the rest of speakText
ChatSpeechResponse(chunk) ==
    /\ chatSpeaking > 0
    /\ chatSpeaking' = chatSpeaking - 1
    /\ chatPlayAudio(chunk)
    /\ chatEvent' = ChatEvent("speechResponse", <<>>)
    /\ UNCHANGED <<appVars, isChatOpen, chatTextVars, chatVoiceVars, hasSpokenGreeting>>

\* handleToggleRecording up to its await of getUserMedia; the microphone
\* button is disabled while a request is in flight.  When MaxVoiceAttempts
\* invocations still hold a stream or a session the model stops here.
HandleToggleRecording ==
    /\ isChatOpen
    /\ ~isLoading
    /\ IF isRecording
       THEN /\ cleanupVoice(voiceAttempts)
            /\ UNCHANGED input
            /\ chatEvent' = ChatEvent("toggleOff", <<>>)
       ELSE /\ isConnectingVoice' = TRUE
            /\ input' = <<>>
            /\ \E k \in VoiceAttempt :
                 /\ voiceAttempts[k].media = "none"
                 /\ \A j \in VoiceAttempt : j < k => voiceAttempts[j].media # "none"
                 /\ VoiceCommit([voiceAttempts EXCEPT ![k].media = "pending"],
                                voiceSessionRef, voiceAudioContextRef,
                                voiceMediaStreamRef, voiceScriptProcessorRef)
            /\ chatEvent' = ChatEvent("toggleOn", <<>>)
            /\ UNCHANGED isRecording
    /\ UNCHANGED <<appVars, isChatOpen, messages, isLoading, chatRef, chatStorage,
                   chatRequests, chatAudioVars>>

\* getUserMedia resolves: the rest of the try block of handleToggleRecording
VoiceGetUserMediaResolved(k) ==
    /\ voiceAttempts[k].media = "pending"
    \* voiceMediaStreamRef, voiceAudioContextRef and voiceSessionRef are set
    \* to the stream, the context and the session promise of this invocation
    /\ VoiceCommit([voiceAttempts EXCEPT ![k].media = "live",
                                         ![k].session = "connecting"],
                   k, k, k, voiceScriptProcessorRef)
    /\ chatEvent' = ChatEvent("getUserMediaResolved", <<>>)
    /\ UNCHANGED <<appVars, isChatOpen, chatTextVars, isRecording, isConnectingVoice,
                   chatAudioVars>>

\* getUserMedia rejects: the catch block of handleToggleRecording
VoiceGetUserMediaRejected(k) ==
    /\ voiceAttempts[k].media = "pending"
    /\ VoiceCommit([voiceAttempts EXCEPT ![k] = NoVoiceAttempt],
                   voiceSessionRef, voiceAudioContextRef, voiceMediaStreamRef,
                   voiceScriptProcessorRef)
    /\ isConnectingVoice' = FALSE
    /\ chatEvent' = ChatEvent("getUserMediaRejected", <<>>)
    /\ UNCHANGED <<appVars, isChatOpen, chatTextVars, isRecording, chatAudioVars>>

\* callbacks.onopen of the voice session of attempt k;
\* voiceAudioContextRef.current! is null after a cleanupVoice: the callback
\* throws after the two setters
VoiceOnOpen(k) ==
    /\ voiceAttempts[k].session = "connecting"
    /\ isConnectingVoice' = FALSE
    /\ isRecording' = TRUE
    /\ VoiceCommit([voiceAttempts EXCEPT ![k].session = "open"],
                   voiceSessionRef, voiceAudioContextRef, voiceMediaStreamRef,
                   IF voiceAudioContextRef # 0 THEN k ELSE voiceScriptProcessorRef)
    /\ chatEvent' = ChatEvent("onopen", <<>>)
    /\ UNCHANGED <<appVars, isChatOpen, chatTextVars, chatAudioVars>>

\* callbacks.onmessage of the voice session of attempt k; transcription is
\* message.serverContent?.inputTranscription?.text, empty when there is none
VoiceOnMessage(k, transcription) ==
    /\ voiceAttempts[k].session = "open"
    /\ input' = IF transcription # <<>> THEN transcription ELSE input
    /\ chatEvent' = ChatEvent("onmessage", transcription)
    /\ UNCHANGED <<appVars, isChatOpen, messages, isLoading, chatRef, chatStorage,
                   chatRequests, chatVoiceVars, chatAudioVars>>

\* callbacks.onerror of the voice session of attempt k
VoiceOnError(k) ==
    /\ voiceAttempts[k].session \in {"connecting", "open"}
    /\ cleanupVoice([voiceAttempts EXCEPT ![k].session = "errored"])
    /\ chatEvent' = ChatEvent("onerror", <<>>)
    /\ UNCHANGED <<appVars, isChatOpen, chatTextVars, chatAudioVars>>

\* callbacks.onclose of the voice session of attempt k
VoiceOnClose(k) ==
    /\ voiceAttempts[k].session \in {"open", "errored"}
    /\ cleanupVoice([voiceAttempts EXCEPT ![k].session = "closed"])
    /\ chatEvent' = ChatEvent("onclose", <<>>)
    /\ UNCHANGED <<appVars, isChatOpen, chatTextVars, chatAudioVars>>

\* The page with the Chatbot in use; the booking hook stays as the page
\* load left it.
InitChat ==
    /\ InitApp
    /\ InitChatbot
    /\ chatStorage \in SavedHistories

\* the text chat: the user opens and closes the Chatbot, types and sends
NextChat ==
    \/ \E ok, answered \in BOOLEAN : OpenChat(ok, answered)
    \/ CloseChat
    \/ \E text \in ChatTexts : SetInput(text)
    \/ HandleSend
    \/ \E i \in 1..MaxMessages, ok \in BOOLEAN : SendMessageSettled(i, ok)
    \/ \E chunk \in GreetingChunks : ChatSpeechResponse(chunk)

SpecChat == InitChat /\ [][NextChat]_vars

\* sendMessage returns a promise that settles: the request is answered or
\* fails, and the rest of handleSend runs
SpecChatLive ==
    SpecChat /\ WF_vars(\E i \in 1..MaxMessages, ok \in BOOLEAN : SendMessageSettled(i, ok))

\* the voice input: the user opens and closes the Chatbot and toggles the
\* recording
NextVoice ==
    \/ \E ok, answered \in BOOLEAN : OpenChat(ok, answered)
    \/ CloseChat
    \/ \E chunk \in GreetingChunks : ChatSpeechResponse(chunk)
    \/ HandleToggleRecording
    \/ \E k \in VoiceAttempt : VoiceGetUserMediaResolved(k)
    \/ \E k \in VoiceAttempt : VoiceGetUserMediaRejected(k)
    \/ \E k \in VoiceAttempt : VoiceOnOpen(k)
    \/ \E k \in VoiceAttempt, transcription \in Transcriptions :
          VoiceOnMessage(k, transcription)
    \/ \E k \in VoiceAttempt : VoiceOnError(k)
    \/ \E k \in VoiceAttempt : VoiceOnClose(k)

SpecVoice == Init /\ [][NextVoice]_vars

----------------------------------------------------------------------------
(* Vocabulary of the properties                                            *)

\* the step taken last was the loop body of onmessage applied to a function
\* call with this name
Called(name) == lastEvent.op = "functionCall" /\ lastEvent.fc.name = name

\* a string with its whitespace characters left out, by recursion on the string
RECURSIVE WithoutWhitespace(_)
WithoutWhitespace(s) ==
    IF s = <<>> THEN <<>>
    ELSE IF Head(s) \in {" ", "\t", "\n"} THEN WithoutWhitespace(Tail(s))
    ELSE <<Head(s)>> \o WithoutWhitespace(Tail(s))

\* the number a submit call carries, an absent argument read as the empty string
Carried(arg) == IF arg = undefined THEN <<>> ELSE WithoutWhitespace(arg)

\* s is a string of exactly n decimal digits
ExactlyDigits(s, n) ==
    /\ Len(s) = n
    /\ {s[i] : i \in 1..Len(s)} \subseteq {"0", "1", "2", "3", "4", "5", "6", "7", "8", "9"}

record == <<containerNumber, containerLocation, gateInTime>>

SpokenRef == <<"7", "6", "5", " ", "4", "3", "2", "1">>
SpokenToken == <<" ", "6", "5", "4", "\t", "3", "2", "1">>
Ref7 == <<"7", "6", "5", "4", "3", "2", "1">>
Token6 == <<"6", "5", "4", "3", "2", "1">>

----------------------------------------------------------------------------
(* C1 *)

\* the rows of the transition table: <<step, function call, next step>>
TableRow(from, fc, to) ==
    \/ from = LISTENING_DPW /\ fc.name = submitDpwReferenceNumber /\ to = CONFIRMING_DPW
    \/ from = CONFIRMING_DPW /\ fc.name = confirmDpwReference /\ fc.flag
          /\ to = LISTENING_TOKEN
    \/ from = CONFIRMING_DPW /\ fc.name = confirmDpwReference /\ ~fc.flag
          /\ to = LISTENING_DPW
    \/ from = LISTENING_TOKEN /\ fc.name = submitTokenNumber /\ to = CONFIRMING_TOKEN
    \/ from = CONFIRMING_TOKEN /\ fc.name = confirmToken /\ fc.flag
          /\ to = CONFIRMING_BOOKING
    \/ from = CONFIRMING_TOKEN /\ fc.name = confirmToken /\ ~fc.flag
          /\ to = LISTENING_TOKEN
    \/ from = CONFIRMING_BOOKING /\ fc.name = confirmBooking /\ fc.flag
          /\ to = PROCESSING
    \/ from = CONFIRMING_BOOKING /\ fc.name = confirmBooking /\ ~fc.flag
          /\ to = LISTENING_DPW

\* C1: every step change caused by a function call is a row of the transition
\* table, and a function call received in a step that has no row for it
\* leaves the step as it is.
C1_StepChangesFollowTable ==
    lastEvent.op = "functionCall" =>
        \/ bookingStep = lastEvent.from
        \/ TableRow(lastEvent.from, lastEvent.fc, bookingStep)

----------------------------------------------------------------------------
(* C2 *)

\* C2: in every step, a submitDpwReferenceNumber call whose number, whitespace
\* removed, is not exactly 7 digits, and a submitTokenNumber call whose number
\* is not exactly 6 digits, leave the step, the reference, the token, the
\* record and the error message unchanged (so the step does not become ERROR).
C2_MalformedSubmitIgnored ==
    \/ Called(submitDpwReferenceNumber) /\ ~ExactlyDigits(Carried(lastEvent.fc.number), 7)
    \/ Called(submitTokenNumber) /\ ~ExactlyDigits(Carried(lastEvent.fc.number), 6)
    => /\ bookingStep = lastEvent.from
       /\ dpwRef = lastEvent.pre.dpwRef
       /\ token = lastEvent.pre.token
       /\ record = lastEvent.pre.record
       /\ error = lastEvent.pre.error
       /\ (lastEvent.from # ERROR => bookingStep # ERROR)

\* a 7-character number with a letter in it was submitted as the reference
\* while the reference was being confirmed, and nothing moved
C2_Witness ==
    /\ Called(submitDpwReferenceNumber)
    /\ lastEvent.fc.number = <<"1", "2", "a", "4", "5", "6", "7">>
    /\ lastEvent.from = CONFIRMING_DPW
    /\ bookingStep = CONFIRMING_DPW
    /\ dpwRef = Ref7

----------------------------------------------------------------------------
(* C3 *)

\* C3: in LISTENING_DPW a submitDpwReferenceNumber call with a valid 7-digit
\* number sets the step to CONFIRMING_DPW and the reference to the number with
\* its whitespace removed, and leaves the token and the record unchanged.
C3_SubmitRefStores ==
    /\ Called(submitDpwReferenceNumber)
    /\ lastEvent.from = LISTENING_DPW
    /\ ExactlyDigits(Carried(lastEvent.fc.number), 7)
    => /\ bookingStep = CONFIRMING_DPW
       /\ dpwRef = Carried(lastEvent.fc.number)
       /\ token = lastEvent.pre.token
       /\ record = lastEvent.pre.record

C3_Witness ==
    /\ Called(submitDpwReferenceNumber)
    /\ lastEvent.fc.number = SpokenRef
    /\ lastEvent.from = LISTENING_DPW
    /\ bookingStep = CONFIRMING_DPW
    /\ dpwRef = Ref7

----------------------------------------------------------------------------
(* C4 *)

\* C4: in LISTENING_TOKEN a submitTokenNumber call with a valid 6-digit number
\* sets the step to CONFIRMING_TOKEN and the token to the number with its
\* whitespace removed, and leaves the reference unchanged.
C4_SubmitTokenStores ==
    /\ Called(submitTokenNumber)
    /\ lastEvent.from = LISTENING_TOKEN
    /\ ExactlyDigits(Carried(lastEvent.fc.number), 6)
    => /\ bookingStep = CONFIRMING_TOKEN
       /\ token = Carried(lastEvent.fc.number)
       /\ dpwRef = lastEvent.pre.dpwRef

C4_Witness ==
    /\ Called(submitTokenNumber)
    /\ lastEvent.fc.number = SpokenToken
    /\ lastEvent.from = LISTENING_TOKEN
    /\ bookingStep = CONFIRMING_TOKEN
    /\ token = Token6
    /\ dpwRef = Ref7

----------------------------------------------------------------------------
(* C5 *)

----------------------------------------------------------------------------
(* C6 *)

\* C6: in CONFIRMING_BOOKING, confirmBooking(proceed = false) leads to
\* LISTENING_DPW with the reference and the token empty; processBooking is
\* not run and the record is left as it was.
C6_DeclinedBookingClearsBoth ==
    /\ Called(confirmBooking)
    /\ ~lastEvent.fc.flag
    /\ lastEvent.from = CONFIRMING_BOOKING
    => /\ bookingStep = LISTENING_DPW
       /\ dpwRef = <<>>
       /\ token = <<>>
       /\ handler # "processBooking"
       /\ record = lastEvent.pre.record

C6_Witness ==
    /\ Called(confirmBooking)
    /\ ~lastEvent.fc.flag
    /\ lastEvent.from = CONFIRMING_BOOKING
    /\ lastEvent.pre.dpwRef = Ref7
    /\ lastEvent.pre.token = Token6
    /\ bookingStep = LISTENING_DPW
    /\ dpwRef = <<>>
    /\ token = <<>>
    /\ record = <<<<>>, <<>>, <<>>>>

----------------------------------------------------------------------------
(* C7 *)

\* C7: in CONFIRMING_BOOKING, confirmBooking(proceed = true) sets the step to
\* PROCESSING; the only step that is taken from PROCESSING is processBooking,
\* which sets the step to SUCCESS; and whenever the step is SUCCESS the
\* container number, the location and the gate-in time are non-empty.
C7_ProcessingThenPopulatedSuccess ==
    /\ Called(confirmBooking) /\ lastEvent.fc.flag /\ lastEvent.from = CONFIRMING_BOOKING
         => bookingStep = PROCESSING /\ handler = "processBooking"
    /\ bookingStep = PROCESSING => handler = "processBooking"
    /\ lastEvent.from = PROCESSING =>
         lastEvent.op = "processBooking" /\ bookingStep = SUCCESS
    /\ bookingStep = SUCCESS =>
         containerNumber # <<>> /\ containerLocation # <<>> /\ gateInTime # <<>>

\* the booking went through after both numbers were captured
C7_Witness ==
    /\ lastEvent.op = "processBooking"
    /\ lastEvent.from = PROCESSING
    /\ bookingStep = SUCCESS
    /\ dpwRef = Ref7
    /\ token = Token6
    /\ containerNumber # <<>>
    /\ containerLocation # <<>>
    /\ gateInTime # <<>>

----------------------------------------------------------------------------
(* C8 *)

\* C8: whenever the step is PROCESSING or SUCCESS, the stored reference is a
\* 7-digit string and the stored token is a 6-digit string.
C8_RecordOnlyForConfirmedNumbers ==
    bookingStep \in {PROCESSING, SUCCESS} =>
        ExactlyDigits(dpwRef, 7) /\ ExactlyDigits(token, 6)

----------------------------------------------------------------------------
(* C9 *)

\* C9: in CONFIRMING_DPW, confirmDpwReference(true) leads to LISTENING_TOKEN;
\* in CONFIRMING_TOKEN, confirmToken(true) leads to CONFIRMING_BOOKING; both
\* leave the reference, the token and the record unchanged.
C9_ConfirmationAdvancesOneStep ==
    /\ Called(confirmDpwReference) /\ lastEvent.fc.flag /\ lastEvent.from = CONFIRMING_DPW
         => bookingStep = LISTENING_TOKEN
    /\ Called(confirmToken) /\ lastEvent.fc.flag /\ lastEvent.from = CONFIRMING_TOKEN
         => bookingStep = CONFIRMING_BOOKING
    /\ (Called(confirmDpwReference) \/ Called(confirmToken)) /\ lastEvent.fc.flag
         => /\ dpwRef = lastEvent.pre.dpwRef
            /\ token = lastEvent.pre.token
            /\ record = lastEvent.pre.record

C9_Witness ==
    /\ Called(confirmToken)
    /\ lastEvent.fc.flag
    /\ lastEvent.from = CONFIRMING_TOKEN
    /\ bookingStep = CONFIRMING_BOOKING
    /\ dpwRef = Ref7
    /\ token = Token6

----------------------------------------------------------------------------
(* C10 *)

\* C10: the catch block of startBooking and the onerror callback both leave
\* the step ERROR and the error message set; and whenever the step is ERROR
\* the error message is not null.
C10_ErrorHasMessage ==
    /\ bookingStep = ERROR => error # null
    /\ lastEvent.op = "getUserMediaRejected" =>
           bookingStep = ERROR /\ error = MicrophoneErrorMessage
    /\ lastEvent.op = "onerror" =>
           bookingStep = ERROR /\ error = ConnectionErrorMessage

\* the session failed in the middle of a booking
C10_Witness ==
    /\ lastEvent.op = "onerror"
    /\ lastEvent.from = CONFIRMING_TOKEN
    /\ bookingStep = ERROR
    /\ error = ConnectionErrorMessage

----------------------------------------------------------------------------
(* C11 *)

\* C11: once the step is ERROR, only reset changes the step; a function call,
\* a session callback or a manual input received in ERROR leaves the step
\* ERROR and, for a function call and a manual input, leaves the reference,
\* the token and the record as they were.
C11_ErrorIsTerminal ==
    lastEvent.from = ERROR /\ lastEvent.op # "reset" =>
        /\ bookingStep = ERROR
        /\ lastEvent.op \in {"functionCall", "manualSubmit"} =>
              /\ dpwRef = lastEvent.pre.dpwRef
              /\ token = lastEvent.pre.token
              /\ record = lastEvent.pre.record

----------------------------------------------------------------------------
(* C12 *)

\* C12: in whatever step it is called, reset leaves the step IDLE, the
\* reference, the token, the container number, the location and the gate-in
\* time empty, the error message null, the session ref, the stream ref, the
\* processor ref and the two audio context refs null, the set of scheduled
\* sources empty and the playback cursor 0.
C12_ResetReleasesEverything ==
    lastEvent.op = "reset" =>
        /\ bookingStep = IDLE
        /\ dpwRef = <<>>
        /\ token = <<>>
        /\ containerNumber = <<>>
        /\ containerLocation = <<>>
        /\ gateInTime = <<>>
        /\ error = null
        /\ sessionPromiseRef = 0
        /\ mediaStreamRef = 0
        /\ scriptProcessorRef = 0
        /\ audioContextRef = 0
        /\ ~outputAudioContextRef
        /\ audioSourcesRef = {}
        /\ nextStartTimeRef = 0

\* a booking was reset while the token was being confirmed: both numbers were
\* captured, every ref held its handle and a chunk was waiting to be played
C12_Witness ==
    /\ lastEvent.op = "reset"
    /\ lastEvent.from = CONFIRMING_TOKEN
    /\ lastEvent.pre.dpwRef = Ref7
    /\ lastEvent.pre.token = Token6
    /\ lastEvent.held = [session |-> TRUE, stream |-> TRUE, processor |-> TRUE,
                         input |-> TRUE, output |-> TRUE]
    /\ lastEvent.playback.sources # {}
    /\ lastEvent.playback.cursor > 0
    /\ bookingStep = IDLE
    /\ audioSourcesRef = {}

----------------------------------------------------------------------------
(* C13 *)

\* the step taken last was given an audio chunk and played it
Played == lastEvent.chunk # NoChunk

\* C13: of the chunks scheduled since playback was last stopped, no two play
\* at the same time (each plays from its start for its duration), and a chunk
\* received while the chunk scheduled before it has not played to its end
\* starts exactly where that chunk ends.
C13_ChunksBackToBack ==
    /\ \A i, j \in 1..Len(scheduled) :
           i < j => scheduled[i].end <= scheduled[j].start
    /\ Played =>
          /\ scheduled # <<>>
          /\ scheduled[Len(scheduled)].end
                = scheduled[Len(scheduled)].start + lastEvent.chunk
          /\ Len(scheduled) >= 2
                /\ scheduled[Len(scheduled) - 1].end >= lastEvent.playback.clock
              => scheduled[Len(scheduled)].start = scheduled[Len(scheduled) - 1].end

\* a message brought a chunk while the chunk before it was still playing
C13_Witness ==
    /\ lastEvent.op = "onmessage"
    /\ lastEvent.chunk = 2
    /\ Len(scheduled) = 2
    /\ scheduled[1] = [start |-> 0, end |-> 1]
    /\ lastEvent.playback.clock = 0
    /\ lastEvent.playback.sources = {scheduled[1]}
    /\ scheduled[2] = [start |-> 1, end |-> 3]
    /\ audioSourcesRef = {scheduled[1], scheduled[2]}

----------------------------------------------------------------------------
(* C14 *)

\* the step taken last was the end of the handler of a message that carried
\* the interruption flag
Interrupted == lastEvent.op = "finishMessage" /\ lastEvent.fc.flag

\* C14: when the handler of a message that carries the interruption flag has
\* completed, the set of scheduled sources is empty (every source was stopped
\* and taken out, those of this message and of earlier ones) and the playback
\* cursor is 0.
C14_InterruptionClearsPlayback ==
    Interrupted =>
        /\ audioSourcesRef = {}
        /\ nextStartTimeRef = 0
        /\ scheduled = <<>>

\* the interrupting message found two chunks waiting to be played
C14_Witness ==
    /\ Interrupted
    /\ lastEvent.playback.sources = {[start |-> 0, end |-> 1], [start |-> 1, end |-> 3]}
    /\ lastEvent.playback.cursor = 3
    /\ lastEvent.playback.clock = 0
    /\ audioSourcesRef = {}
    /\ nextStartTimeRef = 0

----------------------------------------------------------------------------
(* C16 *)

\* the step taken last called stopPlayback: the end of the handler of an
\* interrupting message, a manual submit, or cleanup (reset, onerror,
\* onclose, the failure path of startBooking)
StoppedPlayback ==
    \/ Interrupted
    \/ lastEvent.op \in {"manualSubmit", "reset", "onerror", "onclose",
                         "getUserMediaRejected"}

\* C16: every playAudio call leaves the playback cursor greater than or
\* equal to the value it had before the call and to the clock of the
\* playback context, and a step that leaves the cursor smaller than it was
\* is a step that called stopPlayback and leaves it 0.
C16_CursorNeverDecreases ==
    /\ Played =>
          /\ nextStartTimeRef >= lastEvent.playback.cursor
          /\ nextStartTimeRef >= currentTime
    /\ nextStartTimeRef < lastEvent.playback.cursor =>
          /\ StoppedPlayback
          /\ nextStartTimeRef = 0

\* a chunk arrived when the clock had passed the cursor: it starts at the
\* clock and the cursor is moved to its end
C16_Witness ==
    /\ Played
    /\ lastEvent.playback.cursor = 1
    /\ lastEvent.playback.clock = 2
    /\ lastEvent.chunk = 1
    /\ currentTime = 2
    /\ nextStartTimeRef = 3

----------------------------------------------------------------------------
(* C18 *)

\* the step taken last was a call of submitManualInput
SubmitCalled == lastEvent.op = "submitManualInput"

\* C18: a call of submitManualInput(number) leaves the set of sources empty
\* and the playback cursor 0 in every step; in LISTENING_DPW it stores the
\* number as the reference and moves to CONFIRMING_DPW, in LISTENING_TOKEN
\* it stores the number as the token and moves to CONFIRMING_TOKEN, and in
\* every other step it leaves the step, the reference and the token as they
\* were; the record is unchanged in every step.
C18_SubmitManualInputByStep ==
    SubmitCalled =>
        /\ audioSourcesRef = {}
        /\ nextStartTimeRef = 0
        /\ record = lastEvent.pre.record
        /\ <<bookingStep, dpwRef, token>> =
              IF lastEvent.from = LISTENING_DPW
              THEN <<CONFIRMING_DPW, lastEvent.fc.number, lastEvent.pre.token>>
              ELSE IF lastEvent.from = LISTENING_TOKEN
              THEN <<CONFIRMING_TOKEN, lastEvent.pre.dpwRef, lastEvent.fc.number>>
              ELSE <<lastEvent.from, lastEvent.pre.dpwRef, lastEvent.pre.token>>

\* submitManualInput was called with seven digits in CONFIRMING_DPW while a
\* chunk was scheduled: the playback was stopped, the reference is the one
\* that was there
C18_Witness ==
    /\ SubmitCalled
    /\ lastEvent.from = CONFIRMING_DPW
    /\ lastEvent.fc.number = <<"7", "6", "5", "4", "3", "2", "1">>
    /\ lastEvent.playback.sources # {}
    /\ lastEvent.playback.cursor > 0
    /\ lastEvent.pre.dpwRef = <<"6", "5", "4", "3", "2", "1">>
    /\ dpwRef = <<"6", "5", "4", "3", "2", "1">>
    /\ bookingStep = CONFIRMING_DPW
    /\ audioSourcesRef = {}
    /\ nextStartTimeRef = 0

----------------------------------------------------------------------------
(* C19 *)

\* the step taken last was the submission of the manual input form
FormSubmitted == lastEvent.op = "manualSubmit"

\* the text of the form when it was submitted
SubmittedText == lastEvent.fc.number

\* C19: when the manual input form is submitted, the text reaches the
\* booking state exactly if it consists of 7 digits in LISTENING_DPW, or of
\* 6 digits in LISTENING_TOKEN: then it is stored as submitManualInput
\* stores it; with any other text the step, the reference, the token, the
\* record and the error are as they were.
C19_OnlyValidManualInput ==
    FormSubmitted =>
        IF lastEvent.from = LISTENING_DPW /\ ExactlyDigits(SubmittedText, 7)
        THEN /\ bookingStep = CONFIRMING_DPW
             /\ Fields = [lastEvent.pre EXCEPT !.dpwRef = SubmittedText]
        ELSE IF lastEvent.from = LISTENING_TOKEN /\ ExactlyDigits(SubmittedText, 6)
        THEN /\ bookingStep = CONFIRMING_TOKEN
             /\ Fields = [lastEvent.pre EXCEPT !.token = SubmittedText]
        ELSE /\ bookingStep = lastEvent.from
             /\ Fields = lastEvent.pre

\* six digits were submitted when the reference was asked for: nothing
\* changed
C19_Witness ==
    /\ FormSubmitted
    /\ lastEvent.from = LISTENING_DPW
    /\ SubmittedText = Token6
    /\ bookingStep = LISTENING_DPW
    /\ dpwRef = <<>>

----------------------------------------------------------------------------
(* C21 *)

\* C21: whenever the splash screen is gone and the step is IDLE, the effect
\* can call startBooking and startBooking does not return early, every step
\* the machine can take leaves the step CONNECTING, and the step startBooking
\* took left IDLE for CONNECTING.
C21_NeverRestsInIdle ==
    /\ autoStartDue =>
          /\ ENABLED StartBooking
          /\ ~ENABLED (Next /\ bookingStep' # CONNECTING)
    /\ lastEvent.op = "startBooking" =>
          /\ lastEvent.from = IDLE
          /\ bookingStep = CONNECTING

\* the booking was reset in SUCCESS: the step is IDLE and the effect is due
C21_Witness ==
    /\ lastEvent.op = "reset"
    /\ lastEvent.from = SUCCESS
    /\ bookingStep = IDLE
    /\ autoStartDue
    /\ sessionPromiseRef = 0

----------------------------------------------------------------------------
(* C22 *)

\* C22: whenever the step is ERROR or IDLE, sessionPromiseRef,
\* mediaStreamRef, scriptProcessorRef, audioContextRef and
\* outputAudioContextRef are null and the set of playback sources is empty.
C22_NoHandlesInErrorOrIdle ==
    bookingStep \in {ERROR, IDLE} =>
        /\ Handles = NoHandles
        /\ audioSourcesRef = {}

----------------------------------------------------------------------------
(* C23 *)

\* the input has a character that is not whitespace
NonBlank(text) == \E i \in 1..Len(text) : text[i] \notin WhitespaceChar

\* handleSend, as chatEvent recorded it, found what it needs to send: an
\* input that is not blank, no request in flight and a chat
SendAllowed ==
    /\ NonBlank(chatEvent.input)
    /\ chatEvent.requests = <<>>
    /\ chatEvent.chatRef

\* the assistant messages that end a request
AssistantMessages == {Message(FALSE, ReplyText), Message(FALSE, ErrorText)}

C23_AfterHandleSend ==
    chatEvent.op = "handleSend" =>
        IF SendAllowed
        THEN /\ messages = Append(chatEvent.messages, Message(TRUE, chatEvent.input))
             /\ chatRequests = <<chatEvent.input>>
             /\ isLoading
        ELSE /\ messages = chatEvent.messages
             /\ chatRequests = chatEvent.requests
             /\ isLoading = chatEvent.isLoading

C23_AfterAnswer ==
    chatEvent.op \in {"reply", "error"} =>
        /\ chatEvent.messages # <<>>
        /\ chatEvent.messages[Len(chatEvent.messages)] = Message(TRUE, chatEvent.text)
        /\ \E m \in AssistantMessages : messages = Append(chatEvent.messages, m)
        /\ ~isLoading

----------------------------------------------------------------------------
(* C24 *)

\* C24: when the Chatbot is closed and when a recording is toggled off, the
\* voice session ref, the voice audio context ref, the stream ref and the
\* processor ref are null and isRecording and isConnectingVoice are false;
\* when the Chatbot is closed, moreover, the set of sources is empty, the
\* playback cursor is 0 and the output audio context ref is null.
C24_VoiceReleased ==
    /\ chatEvent.op \in {"close", "toggleOff"} =>
          /\ voiceSessionRef = 0
          /\ voiceAudioContextRef = 0
          /\ voiceMediaStreamRef = 0
          /\ voiceScriptProcessorRef = 0
          /\ ~isRecording
          /\ ~isConnectingVoice
    /\ chatEvent.op = "close" =>
          /\ chatAudioSourcesRef = {}
          /\ chatNextStartTimeRef = 0
          /\ ~chatOutputContextRef

\* the Chatbot was closed while it was recording and the greeting was
\* scheduled
C24_Witness ==
    /\ chatEvent.op = "close"
    /\ chatEvent.held = [session |-> TRUE, stream |-> TRUE, processor |-> TRUE,
                         input |-> TRUE, recording |-> TRUE, connecting |-> FALSE,
                         sources |-> TRUE, output |-> TRUE]

----------------------------------------------------------------------------
(* C25 *)

\* the sessions that were connected and that cleanup has not asked to close
SessionsInUse ==
    {k \in Attempt : attempts[k].session \in {"connecting", "open"}
                       /\ ~attempts[k].closeRequested}

\* C25: at most one session is connected and not yet asked to close, and it
\* is the session in sessionPromiseRef, the one the next cleanup closes.
C25_OneSessionHeldByRef ==
    /\ Cardinality(SessionsInUse) <= 1
    /\ \A k \in SessionsInUse : sessionPromiseRef = k

----------------------------------------------------------------------------
(* C26 *)

\* C26: a callback of a session that cleanup had asked to close (onopen,
\* onerror, onclose, and a function call of a message it delivers) leaves the
\* step, the reference, the token, the record and the error as they were;
\* onopen, onerror and onclose of such a session leave the refs of the
\* session, the stream, the processor and the two audio contexts as they
\* were.
C26_StaleCallbacksIgnored ==
    lastEvent.stale =>
        /\ bookingStep = lastEvent.from
        /\ Fields = lastEvent.pre
        /\ lastEvent.op \in {"onopen", "onerror", "onclose"} => Handles = lastEvent.held

----------------------------------------------------------------------------
(* C27 *)

ListeningOrConfirming ==
    {LISTENING_DPW, CONFIRMING_DPW, LISTENING_TOKEN, CONFIRMING_TOKEN, CONFIRMING_BOOKING}

\* C27: in the listening and the confirming steps sessionPromiseRef holds a
\* session that is open, or one that is connecting and not asked to close,
\* and mediaStreamRef holds a stream whose tracks are live.
C27_ListeningHasSessionAndStream ==
    bookingStep \in ListeningOrConfirming =>
        /\ sessionPromiseRef # 0
        /\ attempts[sessionPromiseRef].session \in {"connecting", "open"}
        /\ ~attempts[sessionPromiseRef].closeRequested
        /\ mediaStreamRef # 0
        /\ attempts[mediaStreamRef].media = "live"

----------------------------------------------------------------------------
(* C29 *)

\* C29: a step taken in SUCCESS that is not reset leaves the step SUCCESS
\* and, where it is a function call or a manual input, leaves the reference,
\* the token and the record as they were.
C29_SuccessLeftByResetOnly ==
    lastEvent.from = SUCCESS /\ lastEvent.op # "reset" =>
        /\ bookingStep = SUCCESS
        /\ lastEvent.op \in {"functionCall", "manualSubmit"} =>
              /\ dpwRef = lastEvent.pre.dpwRef
              /\ token = lastEvent.pre.token
              /\ record = lastEvent.pre.record

----------------------------------------------------------------------------
(* C30 *)

\* C30: the reference is empty in IDLE, CONNECTING and LISTENING_DPW and a
\* string of 7 digits in CONFIRMING_DPW, LISTENING_TOKEN, CONFIRMING_TOKEN
\* and CONFIRMING_BOOKING; the token is empty in LISTENING_DPW,
\* CONFIRMING_DPW and LISTENING_TOKEN and a string of 6 digits in
\* CONFIRMING_TOKEN and CONFIRMING_BOOKING.
C30_FieldsAgreeWithStep ==
    /\ bookingStep \in {IDLE, CONNECTING, LISTENING_DPW} => dpwRef = <<>>
    /\ bookingStep \in {CONFIRMING_DPW, LISTENING_TOKEN, CONFIRMING_TOKEN,
                         CONFIRMING_BOOKING} => ExactlyDigits(dpwRef, 7)
    /\ bookingStep \in {LISTENING_DPW, CONFIRMING_DPW, LISTENING_TOKEN} => token = <<>>
    /\ bookingStep \in {CONFIRMING_TOKEN, CONFIRMING_BOOKING} => ExactlyDigits(token, 6)

----------------------------------------------------------------------------
(* C28 *)

\* the source a playAudio call adds: it starts at the later of the cursor the
\* call found and the clock, and lasts as long as the chunk of the call
SourceOfCall ==
    LET start == Max(lastEvent.playback.cursor, currentTime)
    IN  [start |-> start, end |-> start + lastEvent.chunk]

\* the step taken last called stopPlayback: the end of the handler of an
\* interrupting message, a manual submit that reached submitManualInput (it
\* changed the step), or cleanup
StopPlaybackCalled ==
    \/ lastEvent.op = "finishMessage" /\ lastEvent.fc.flag
    \/ lastEvent.op = "manualSubmit" /\ bookingStep # lastEvent.from
    \/ lastEvent.op \in {"reset", "onerror", "onclose", "getUserMediaRejected"}

----------------------------------------------------------------------------
(* C20 *)

\* the step taken last took the machine from CONNECTING to LISTENING_DPW
ConnectingToListening ==
    lastEvent.from = CONNECTING /\ bookingStep = LISTENING_DPW

\* C20: startBooking leaves the step CONNECTING, the reference, the token,
\* the record and the error cleared and a microphone request pending; a step
\* that takes the machine from CONNECTING to LISTENING_DPW is the open
\* callback of the session in sessionPromiseRef; and the rejection of the
\* microphone request and the error callback of a session leave the step
\* ERROR.
C20_ConnectingLeadsToListeningOrError ==
    /\ lastEvent.op = "startBooking" =>
          /\ bookingStep = CONNECTING
          /\ Fields = NoFields
          /\ \E k \in Attempt : attempts[k].media = "pending"
    /\ ConnectingToListening =>
          /\ lastEvent.op = "onopen"
          /\ sessionPromiseRef # 0
          /\ attempts[sessionPromiseRef].session = "open"
    /\ lastEvent.op \in {"getUserMediaRejected", "onerror"} => bookingStep = ERROR

----------------------------------------------------------------------------
(* C17 *)

\* the step taken last belongs to the handler of a message
HandlerStep == lastEvent.op \in {"onmessage", "functionCall", "processBooking", "nextCall"}

\* C17: when the loop body of onmessage has run for a function call, one
\* tool response with the id and the name of the call and the result OK was
\* given to the session that delivered the message, whether the call was
\* well-formed or not; and as long as the handler of a message runs, every
\* step is a step of that handler, so that the calls the message lists are
\* applied one after the other in the order of the list.
C17_OneResponsePerCall ==
    /\ lastEvent.op = "functionCall" =>
          lastEvent.sent = [to |-> sender, id |-> lastEvent.fc.id,
                            name |-> lastEvent.fc.name, result |-> "OK"]
    /\ sender # 0 => HandlerStep

----------------------------------------------------------------------------
(* C15 *)

\* the frames that were given to the session of invocation k or wait for it
Frames(k) == attempts[k].received \o attempts[k].waiting

Elements(s) == {s[i] : i \in 1..Len(s)}

InCaptureOrder(s) == \A i, j \in 1..Len(s) : i < j => s[i] < s[j]

\* the step taken last was onaudioprocess; the frame it captured is the
\* one numbered captured
FrameCaptured == lastEvent.op = "audioprocess"

\* C15: every microphone frame captured while sessionPromiseRef holds a
\* session is forwarded exactly once to that session (it is among the frames
\* of that session and of no other, and no frame waits for a session that
\* did not open and never will), the frames a session received are in
\* capture order, and a frame captured while sessionPromiseRef is null is
\* among the frames of no session.
C15_FramesForwardedOnceInOrder ==
    /\ \A k \in Attempt :
         /\ InCaptureOrder(attempts[k].received)
         /\ attempts[k].waiting # <<>> => attempts[k].session = "connecting"
         /\ \A j \in Attempt : j # k => Elements(Frames(j)) \cap Elements(Frames(k)) = {}
    /\ FrameCaptured =>
         \A k \in Attempt :
            captured \in Elements(Frames(k))
                <=> (lastEvent.held.session /\ k = sessionPromiseRef)

----------------------------------------------------------------------------
(* Sanity of the model                                                     *)

TypeOK ==
    /\ bookingStep \in BookingStep
    /\ error \in {null, ConnectionErrorMessage, MicrophoneErrorMessage}
    /\ sessionPromiseRef \in 0..MaxAttempts
    /\ audioContextRef \in 0..MaxAttempts
    /\ mediaStreamRef \in 0..MaxAttempts
    /\ scriptProcessorRef \in 0..MaxAttempts
    /\ outputAudioContextRef \in BOOLEAN
    /\ showSplash \in BOOLEAN
    /\ handler \in {"idle", "calls", "processBooking", "called"}
    /\ sender \in 0..MaxAttempts
    /\ handler = HandlerIdle <=> sender = 0
    /\ \A k \in Attempt :
         /\ attempts[k].media \in {"none", "pending", "live", "stopped", "denied"}
         /\ attempts[k].session \in {"none", "connecting", "open", "errored", "closed"}
         /\ attempts[k].closeRequested \in BOOLEAN
         /\ attempts[k].waiting \in Seq(1..captured)
         /\ attempts[k].received \in Seq(1..captured)
    /\ nextStartTimeRef \in 0..MaxTime
    /\ currentTime \in 0..MaxTime
    /\ speaking \in 0..MaxSpeak
    /\ captured \in 0..MaxFrames
    /\ audioSourcesRef \subseteq Sources
    /\ isChatOpen \in BOOLEAN
    /\ Len(messages) <= MaxMessages
    /\ \A i \in 1..Len(messages) : messages[i].isUser \in BOOLEAN
    /\ input \in ChatTexts
    /\ isLoading \in BOOLEAN
    /\ isRecording \in BOOLEAN
    /\ isConnectingVoice \in BOOLEAN
    /\ chatRef \in BOOLEAN
    /\ voiceSessionRef \in 0..MaxVoiceAttempts
    /\ voiceAudioContextRef \in 0..MaxVoiceAttempts
    /\ voiceMediaStreamRef \in 0..MaxVoiceAttempts
    /\ voiceScriptProcessorRef \in 0..MaxVoiceAttempts
    /\ chatOutputContextRef \in BOOLEAN
    /\ chatNextStartTimeRef \in 0..MaxTime
    /\ hasSpokenGreeting \in BOOLEAN
    /\ Len(chatStorage) <= MaxMessages
    /\ Len(chatRequests) <= MaxMessages
    /\ chatSpeaking \in 0..MaxSpeak
    /\ \A k \in VoiceAttempt :
         /\ voiceAttempts[k].media \in {"none", "pending", "live", "stopped"}
         /\ voiceAttempts[k].session \in {"none", "connecting", "open", "errored", "closed"}
         /\ voiceAttempts[k].closeRequested \in BOOLEAN

\* the session promise in the ref is of a session that is connecting or open
RefSessionAlive ==
    sessionPromiseRef # 0 => attempts[sessionPromiseRef].session \in {"connecting", "open"}

\* the processor in the ref was made on a context, and with the context a
\* session promise was put in its ref
ProcessorNeedsSession ==
    scriptProcessorRef # 0 => audioContextRef # 0 /\ sessionPromiseRef # 0

\* the effect that calls startBooking never meets a session reference
EffectFindsNoSession == autoStartDue => sessionPromiseRef = 0

====
